---- MODULE Spec2Model ----
(***************************************************************************)
(* Model of the AI career-coach backend: the credential set-up at import   *)
(* time (core/ai_core.py setup_api), the generation call sites and the     *)
(* defensive JSON loader _safe_json_loads.                                 *)
(*                                                                         *)
(* Text is a sequence of one-character strings.  A Python/JSON value is a  *)
(* record [t, v]: t is the type tag, v the content.                        *)
(***************************************************************************)
EXTENDS Integers, Sequences, FiniteSets, TLC

(***************************************************************************)
(* Python and JSON values                                                  *)
(***************************************************************************)
None == [t |-> "null", v |-> 0]
PyBool(b) == [t |-> "bool", v |-> b]
PyInt(n) == [t |-> "int", v |-> n]
PyFloat(lexeme) == [t |-> "float", v |-> lexeme]
PyStr(chars) == [t |-> "str", v |-> chars]
PyList(items) == [t |-> "list", v |-> items]
PyDict(f) == [t |-> "dict", v |-> f]
EmptyDict == PyDict(<<>>)

\* bool(x): the value is truthy
Truthy(x) ==
    CASE x.t = "null" -> FALSE
      [] x.t = "bool" -> x.v
      [] x.t = "int" -> x.v # 0
      [] x.t = "float" -> TRUE
      [] x.t = "str" -> Len(x.v) > 0
      [] x.t = "list" -> Len(x.v) > 0
      [] x.t = "dict" -> DOMAIN x.v # {}

\* the grave accent of a markdown fence (no string literal can hold it)
Backtick == "GRAVE"

(***************************************************************************)
(* str methods                                                             *)
(***************************************************************************)
\* characters removed by str.strip() that occur in the modelled texts
PyWhitespace == {" ", "\t", "\n", "\r", "\f"}

\* s[i-1:j] in Python's terms: positions i..j, clipped to the text
SubStr(s, i, j) ==
    LET a == IF i < 1 THEN 1 ELSE i
        b == IF j > Len(s) THEN Len(s) ELSE j
    IN [k \in 1..(IF b >= a THEN b - a + 1 ELSE 0) |-> s[a + k - 1]]

startswith(s, p) == Len(s) >= Len(p) /\ SubStr(s, 1, Len(p)) = p

endswith(s, p) == Len(s) >= Len(p) /\ SubStr(s, Len(s) - Len(p) + 1, Len(s)) = p

strip(s) ==
    IF \A k \in 1..Len(s) : s[k] \in PyWhitespace THEN <<>>
    ELSE LET a == CHOOSE i \in 1..Len(s) :
                      s[i] \notin PyWhitespace /\ \A k \in 1..(i-1) : s[k] \in PyWhitespace
             b == CHOOSE j \in 1..Len(s) :
                      s[j] \notin PyWhitespace /\ \A k \in (j+1)..Len(s) : s[k] \in PyWhitespace
         IN SubStr(s, a, b)

\* first position >= i at which p occurs in s, 0 when there is none
find(s, p, i) ==
    LET hits == {k \in i..(Len(s) - Len(p) + 1) : SubStr(s, k, k + Len(p) - 1) = p}
    IN IF hits = {} THEN 0 ELSE CHOOSE k \in hits : \A m \in hits : k <= m

\* str.replace(old, ""): every non-overlapping occurrence removed, left to right
RECURSIVE remove(_, _)
remove(s, old) ==
    LET k == find(s, old, 1)
    IN IF k = 0 THEN s
       ELSE SubStr(s, 1, k - 1) \o remove(SubStr(s, k + Len(old), Len(s)), old)

(***************************************************************************)
(* json.loads: the decoder of the standard library                         *)
(***************************************************************************)
JsonWhitespace == {" ", "\t", "\n", "\r"}
Digits == {"0", "1", "2", "3", "4", "5", "6", "7", "8", "9"}
HexDigits == Digits \cup {"a", "b", "c", "d", "e", "f", "A", "B", "C", "D", "E", "F"}
ControlChars == {"\t", "\n", "\r", "\f"}

DigitVal(c) ==
    CASE c = "0" -> 0 [] c = "1" -> 1 [] c = "2" -> 2 [] c = "3" -> 3 [] c = "4" -> 4
      [] c = "5" -> 5 [] c = "6" -> 6 [] c = "7" -> 7 [] c = "8" -> 8 [] c = "9" -> 9

Fail == [ok |-> FALSE, val |-> None, end |-> 0]
Ok(val, end) == [ok |-> TRUE, val |-> val, end |-> end]

At(s, i) == IF i >= 1 /\ i <= Len(s) THEN s[i] ELSE "EOF"

\* first position >= i holding no JSON whitespace
SkipWS(s, i) ==
    CHOOSE j \in i..(Len(s) + 1) :
        /\ \A k \in i..(j-1) : s[k] \in JsonWhitespace
        /\ At(s, j) \notin JsonWhitespace

\* first position >= i holding no digit
SkipDigits(s, i) ==
    CHOOSE j \in i..(Len(s) + 1) :
        /\ \A k \in i..(j-1) : s[k] \in Digits
        /\ At(s, j) \notin Digits

RECURSIVE IntOf(_)
IntOf(ds) == IF ds = <<>> THEN 0 ELSE 10 * IntOf(SubStr(ds, 1, Len(ds) - 1)) + DigitVal(ds[Len(ds)])

\* NUMBER_RE: (-?(?:0|[1-9]\d*))(\.\d+)?([eE][-+]?\d+)?
\* i is where the match starts, d the position after the optional sign;
\* intEnd, fracEnd and expEnd are the positions after the three groups

\* int(integer) when only the first group matched, float(...) otherwise
NumberOf(s, i, d, intEnd, expEnd) ==
    IF expEnd = intEnd
    THEN Ok(PyInt((IF d = i THEN 1 ELSE 0 - 1) * IntOf(SubStr(s, d, intEnd - 1))), intEnd)
    ELSE Ok(PyFloat(SubStr(s, i, expEnd - 1)), expEnd)

\* ([eE][-+]?\d+)? with expDigits the position after the optional sign
ExpEnd(s, fracEnd, expDigits) ==
    IF At(s, fracEnd) \in {"e", "E"} /\ At(s, expDigits) \in Digits
    THEN SkipDigits(s, expDigits) ELSE fracEnd

ExpPart(s, fracEnd) ==
    ExpEnd(s, fracEnd, IF At(s, fracEnd + 1) \in {"+", "-"} THEN fracEnd + 2 ELSE fracEnd + 1)

\* (\.\d+)?
FracPart(s, intEnd) ==
    IF At(s, intEnd) = "." /\ At(s, intEnd + 1) \in Digits
    THEN SkipDigits(s, intEnd + 1) ELSE intEnd

\* (?:0|[1-9]\d*)
IntPart(s, d) == IF At(s, d) = "0" THEN d + 1 ELSE SkipDigits(s, d)

NumberGroups(s, i, d, intEnd) == NumberOf(s, i, d, intEnd, ExpPart(s, FracPart(s, intEnd)))

NumberAt(s, i, d) ==
    IF At(s, d) \notin Digits THEN Fail ELSE NumberGroups(s, i, d, IntPart(s, d))

ScanNumber(s, i) == NumberAt(s, i, IF At(s, i) = "-" THEN i + 1 ELSE i)

Unescape(c) ==
    CASE c = "\"" -> "\"" [] c = "\\" -> "\\" [] c = "/" -> "/" [] c = "b" -> "\\b"
      [] c = "f" -> "\f" [] c = "n" -> "\n" [] c = "r" -> "\r" [] c = "t" -> "\t"

\* py_scanstring (strict): i is the position after the opening quote
RECURSIVE ScanString(_, _, _)
ScanString(s, i, acc) ==
    LET c == At(s, i)
    IN CASE c = "EOF" -> Fail
         [] c = "\"" -> Ok(PyStr(acc), i + 1)
         [] c \in ControlChars -> Fail
         [] c = "\\" ->
              LET e == At(s, i + 1)
              IN IF e = "u"
                 THEN IF \A k \in 2..5 : At(s, i + k) \in HexDigits
                      THEN ScanString(s, i + 6,
                               Append(acc, "\\u" \o s[i+2] \o s[i+3] \o s[i+4] \o s[i+5]))
                      ELSE Fail
                 ELSE IF e \in {"\"", "\\", "/", "b", "f", "n", "r", "t"}
                      THEN ScanString(s, i + 2, Append(acc, Unescape(e)))
                      ELSE Fail
         [] OTHER -> ScanString(s, i + 1, Append(acc, c))

RECURSIVE ScanOnce(_, _)
RECURSIVE ScanArray(_, _, _)
RECURSIVE ScanObject(_, _, _)

\* JSONArray after an item: j is the first position after the item that
\* holds no whitespace
ArrayNext(s, j, items) ==
    IF At(s, j) = "]" THEN Ok(PyList(items), j + 1)
    ELSE IF At(s, j) = "," THEN ScanArray(s, SkipWS(s, j + 1), items)
    ELSE Fail

ArrayItem(s, acc, item) ==
    IF ~item.ok THEN Fail ELSE ArrayNext(s, SkipWS(s, item.end), Append(acc, item.val))

\* JSONArray after the first value position: i is where the next value starts
ScanArray(s, i, acc) == ArrayItem(s, acc, ScanOnce(s, i))

\* JSONObject after a member: j is the first position after its value that
\* holds no whitespace
ObjectNext(s, j, pairs) ==
    IF At(s, j) = "}" THEN Ok(PyDict(pairs), j + 1)
    ELSE IF At(s, j) = "," THEN ScanObject(s, SkipWS(s, j + 1), pairs)
    ELSE Fail

\* pairs[key] = value: a repeated key keeps its last value
ObjectValue(s, acc, key, item) ==
    IF ~item.ok THEN Fail
    ELSE ObjectNext(s, SkipWS(s, item.end), (key.val.v :> item.val) @@ acc)

ObjectColon(s, acc, key, colon) ==
    IF At(s, colon) # ":" THEN Fail
    ELSE ObjectValue(s, acc, key, ScanOnce(s, SkipWS(s, colon + 1)))

ObjectKey(s, acc, key) ==
    IF ~key.ok THEN Fail ELSE ObjectColon(s, acc, key, SkipWS(s, key.end))

\* JSONObject: i is the position of the opening quote of the next key
ScanObject(s, i, acc) ==
    IF At(s, i) # "\"" THEN Fail ELSE ObjectKey(s, acc, ScanString(s, i + 1, <<>>))

\* scanner.py_make_scanner _scan_once
ScanOnce(s, i) ==
    LET c == At(s, i)
    IN CASE c = "\"" -> ScanString(s, i + 1, <<>>)
         [] c = "{" -> IF At(s, SkipWS(s, i + 1)) = "}"
                       THEN Ok(EmptyDict, SkipWS(s, i + 1) + 1)
                       ELSE ScanObject(s, SkipWS(s, i + 1), <<>>)
         [] c = "[" -> IF At(s, SkipWS(s, i + 1)) = "]"
                       THEN Ok(PyList(<<>>), SkipWS(s, i + 1) + 1)
                       ELSE ScanArray(s, SkipWS(s, i + 1), <<>>)
         [] c = "n" /\ SubStr(s, i, i + 3) = <<"n", "u", "l", "l">> -> Ok(None, i + 4)
         [] c = "t" /\ SubStr(s, i, i + 3) = <<"t", "r", "u", "e">> -> Ok(PyBool(TRUE), i + 4)
         [] c = "f" /\ SubStr(s, i, i + 4) = <<"f", "a", "l", "s", "e">> -> Ok(PyBool(FALSE), i + 5)
         [] OTHER -> ScanNumber(s, i)

\* json.loads(s): ok = FALSE stands for json.JSONDecodeError
\* JSONDecoder.decode: only whitespace may follow the value ("Extra data")
WholeText(s, r) == IF r.ok /\ SkipWS(s, r.end) = Len(s) + 1 THEN r ELSE Fail

json_loads(s) == WholeText(s, ScanOnce(s, SkipWS(s, 1)))

(***************************************************************************)
(* json.dumps: the encoder of the standard library (ensure_ascii, no       *)
(* sort_keys).  style selects the separators: the default ", " and ": ",   *)
(* the compact "," and ":", or an indent with line breaks.                 *)
(***************************************************************************)
RECURSIVE DigitsOf(_)
DigitsOf(n) ==
    LET d == <<"0", "1", "2", "3", "4", "5", "6", "7", "8", "9">>
    IN IF n < 10 THEN <<d[n + 1]>> ELSE DigitsOf(n \div 10) \o <<d[(n % 10) + 1]>>

EscapeChar(c) ==
    CASE c = "\"" -> <<"\\", "\"">>
      [] c = "\\" -> <<"\\", "\\">>
      [] c = "\n" -> <<"\\", "n">>
      [] c = "\r" -> <<"\\", "r">>
      [] c = "\t" -> <<"\\", "t">>
      [] c = "\f" -> <<"\\", "f">>
      [] OTHER -> <<c>>

RECURSIVE EncodeString(_)
EncodeString(chars) ==
    IF chars = <<>> THEN <<>> ELSE EscapeChar(Head(chars)) \o EncodeString(Tail(chars))

ItemSeparator(style) ==
    CASE style = "compact" -> <<",">>
      [] style = "indent" -> <<",", "\n", " ">>
      [] OTHER -> <<",", " ">>

KeySeparator(style) == IF style = "compact" THEN <<":">> ELSE <<":", " ">>

Opening(style) == IF style = "indent" THEN <<"\n", " ">> ELSE <<>>

Closing(style) == IF style = "indent" THEN <<"\n">> ELSE <<>>

RECURSIVE json_dumps(_, _)
RECURSIVE EncodeItems(_, _)
RECURSIVE EncodeMembers(_, _)

EncodeItems(items, style) ==
    IF Len(items) = 1 THEN json_dumps(items[1], style)
    ELSE json_dumps(items[1], style) \o ItemSeparator(style) \o EncodeItems(Tail(items), style)

EncodeMembers(f, style) ==
    LET k == CHOOSE x \in DOMAIN f : TRUE
        rest == [x \in (DOMAIN f) \ {k} |-> f[x]]
        member == <<"\"">> \o EncodeString(k) \o <<"\"">> \o KeySeparator(style)
                    \o json_dumps(f[k], style)
    IN IF DOMAIN rest = {} THEN member
       ELSE member \o ItemSeparator(style) \o EncodeMembers(rest, style)

json_dumps(x, style) ==
    CASE x.t = "null" -> <<"n", "u", "l", "l">>
      [] x.t = "bool" -> IF x.v THEN <<"t", "r", "u", "e">> ELSE <<"f", "a", "l", "s", "e">>
      [] x.t = "int" -> IF x.v < 0 THEN <<"-">> \o DigitsOf(0 - x.v) ELSE DigitsOf(x.v)
      [] x.t = "float" -> x.v
      [] x.t = "str" -> <<"\"">> \o EncodeString(x.v) \o <<"\"">>
      [] x.t = "list" -> IF x.v = <<>> THEN <<"[", "]">>
                         ELSE <<"[">> \o Opening(style) \o EncodeItems(x.v, style)
                                \o Closing(style) \o <<"]">>
      [] x.t = "dict" -> IF DOMAIN x.v = {} THEN <<"{", "}">>
                         ELSE <<"{">> \o Opening(style) \o EncodeMembers(x.v, style)
                                \o Closing(style) \o <<"}">>

(***************************************************************************)
(* _safe_json_loads (core/ai_core.py)                                      *)
(***************************************************************************)
FenceOpen == <<Backtick, Backtick, Backtick, "j", "s", "o", "n">>
FenceClose == <<Backtick, Backtick, Backtick>>

Return(x) == [raised |-> FALSE, val |-> x]
Raise == [raised |-> TRUE, val |-> None]

\* if s.endswith("```"): s = s[:-3]
DropFenceClose(t) == IF endswith(t, FenceClose) THEN SubStr(t, 1, Len(t) - 3) ELSE t

\* variant: the opening marker is cut one character short (s[6:])
DropFenceOpen_short_slice(t) ==
    IF startswith(t, FenceOpen) THEN SubStr(t, 7, Len(t)) ELSE t

\* if s.startswith("```json"): s = s[7:]
DropFenceOpen(t) == IF startswith(t, FenceOpen) THEN SubStr(t, 8, Len(t)) ELSE t

\* variant: the markers are removed wherever they occur, as str.replace does
CleanedText_replace(s) == strip(remove(remove(s, FenceOpen), FenceClose))

\* the text handed to the first json.loads: strip, drop the fence markers, strip
CleanedText(s) == strip(DropFenceClose(DropFenceOpen(strip(s))))

\* variant: a non-greedy pattern, r"\{.*?\}", stops at the first "}"
BraceSearch_nongreedy(s) ==
    LET opens == {i \in 1..Len(s) : s[i] = "{" /\ \E j \in (i+1)..Len(s) : s[j] = "}"}
        first == CHOOSE i \in opens : \A k \in opens : i <= k
        close == CHOOSE j \in (first+1)..Len(s) :
                     s[j] = "}" /\ \A k \in (first+1)..(j-1) : s[k] # "}"
    IN IF opens = {} THEN [found |-> FALSE, group |-> <<>>]
       ELSE [found |-> TRUE, group |-> SubStr(s, first, close)]

\* re.search(r"\{.*\}", s, flags=re.DOTALL): the leftmost "{" that some "}"
\* follows, up to the last "}" of the text
BraceSearch(s) ==
    LET opens == {i \in 1..Len(s) : s[i] = "{" /\ \E j \in (i+1)..Len(s) : s[j] = "}"}
        first == CHOOSE i \in opens : \A k \in opens : i <= k
        last == CHOOSE j \in 1..Len(s) : s[j] = "}" /\ \A k \in (j+1)..Len(s) : s[k] # "}"
    IN IF opens = {} THEN [found |-> FALSE, group |-> <<>>]
       ELSE [found |-> TRUE, group |-> SubStr(s, first, last)]

\* try: return json.loads(text)
\* except json.JSONDecodeError: <handler>
LoadedOr(loaded, handler) == IF loaded.ok THEN Return(loaded.val) ELSE handler

TryLoads(text, handler) == LoadedOr(json_loads(text), handler)

\* variant: the inner handler returns None, not the fallback it was given
SearchAndLoad_inner_none(m, fallback) ==
    IF m.found THEN TryLoads(m.group, Return(None)) ELSE Return(fallback)

\* the handler of the first json.loads: if a brace-delimited part is found
\* load it, and answer the fallback when that fails or nothing is found
SearchAndLoad(m, fallback) ==
    IF m.found THEN TryLoads(m.group, Return(fallback)) ELSE Return(fallback)

LoadCleaned(cleaned, fallback) ==
    TryLoads(cleaned, SearchAndLoad(BraceSearch(cleaned), fallback))

_safe_json_loads(s, fallback) ==
    IF ~Truthy(s) THEN Return(fallback) ELSE LoadCleaned(CleanedText(s.v), fallback)

(***************************************************************************)
(* The process: configuration, import-time set-up, generation call sites   *)
(***************************************************************************)
VARIABLES
    env,            \* os.environ after load_dotenv()
    pc,             \* "import" | "serving" | "returned" | "exited"
    api_key,        \* the credential genai.configure() was given, NoKey before
    calls,          \* number of call-site invocations made so far
    site,           \* the call site of the latest invocation
    world,          \* how the remote service behaved during the latest invocation
    attempts,       \* generate_content calls of the latest invocation, in order
    result,         \* what the latest invocation returned or raised
    failed_before,  \* credentials whose attempt failed in an earlier invocation
    raw,            \* _safe_json_loads: the argument s
    fallback,       \* _safe_json_loads: the argument fallback
    made,           \* how raw was produced (value, separators, wrapping)
    parsed,         \* _safe_json_loads: the outcome
    npc,            \* "text" | "done"
    chat_request,   \* a conversational call: its call site, history and newest message
    wire,           \* what the chat session of that call was given, in order
    chat_result,    \* what the conversational call returned or raised
    cpc,            \* "idle" | "called" | "returned"
    roadmaps,       \* the documents of users/{uid}/roadmaps, by document id
    added,          \* how many documents were ever added to that collection
    user_doc,       \* the document users/{uid}
    initial_doc,    \* users/{uid} as it was before any store operation began
    db_ops,         \* the store operation each server process is running
    http_request,   \* the request the latest handler was given
    http_response,  \* the status and body it answered with
    served,         \* number of requests handled so far
    opt_request,    \* optimize_resume_json: user_input and the service's behaviour
    resume_before,  \* optimize_resume_json: the argument as it was at the call
    resume_json,    \* optimize_resume_json: the argument, which the call may change
    opt_result,     \* optimize_resume_json: what the call returned
    inflight,       \* the invocations running at the same time, by request
    user_fields,    \* the fields of users/{uid} other than 'stats'
    items,          \* the documents of the user's resume sub-collections
    resume_call,    \* the latest call of a resume method of DatabaseManager
    fetched         \* what fetch_resume_relational returned last

procVars == <<env, pc, api_key, calls, site, world, attempts, result, failed_before>>
normVars == <<raw, fallback, made, parsed, npc>>
chatVars == <<chat_request, wire, chat_result, cpc>>
storeVars == <<roadmaps, added, user_doc, initial_doc, db_ops>>
httpVars == <<http_request, http_response, served>>
optVars == <<opt_request, resume_before, resume_json, opt_result>>
concVars == <<inflight>>
resumeVars == <<user_fields, items, resume_call, fetched>>
vars == <<procVars, normVars, chatVars, storeVars, httpVars, optVars, concVars, resumeVars>>

\* no conversational call is made
NoChat == [site |-> "none", history |-> <<>>, query |-> ""]

ChatIdle ==
    /\ chat_request = NoChat
    /\ wire = <<>>
    /\ chat_result = [raised |-> FALSE, val |-> [t |-> "null", v |-> 0]]
    /\ cpc = "idle"

\* users/{uid} does not exist
MissingDoc == [exists |-> FALSE, stats |-> [t |-> "absent", v |-> <<>>]]

\* no store operation is running and the store is empty
StoreIdle ==
    /\ roadmaps = <<>>
    /\ added = 0
    /\ user_doc = MissingDoc
    /\ initial_doc = MissingDoc
    /\ db_ops = <<>>

NoRequest == [endpoint |-> "none"]
NoResponse == [status |-> 0, body |-> [t |-> "null", v |-> 0]]

HttpIdle ==
    /\ http_request = NoRequest
    /\ http_response = NoResponse
    /\ served = 0

OptIdle ==
    /\ opt_request = [pc |-> "idle"]
    /\ resume_before = [t |-> "null", v |-> 0]
    /\ resume_json = [t |-> "null", v |-> 0]
    /\ opt_result = [raised |-> FALSE, val |-> [t |-> "null", v |-> 0]]

ConcIdle == inflight = <<>>

ResumeIdle ==
    /\ user_fields = <<>>
    /\ items = <<>>
    /\ resume_call = [op |-> "none"]
    /\ fetched = [t |-> "null", v |-> 0]

\* the state of everything but one part of the program
besideProc == <<normVars, chatVars, storeVars, httpVars, optVars, concVars, resumeVars>>
besideNorm == <<procVars, chatVars, storeVars, httpVars, optVars, concVars, resumeVars>>
besideChat == <<procVars, normVars, storeVars, httpVars, optVars, concVars, resumeVars>>
besideStore == <<procVars, normVars, chatVars, httpVars, optVars, concVars, resumeVars>>
besideHttp == <<procVars, normVars, chatVars, optVars, concVars, resumeVars>>
besideOpt == <<procVars, normVars, chatVars, storeVars, httpVars, concVars, resumeVars>>
besideConc == <<normVars, chatVars, storeVars, httpVars, optVars, resumeVars>>
\* everything but the user document and the store operations in flight
besideUserDoc == <<procVars, normVars, chatVars, httpVars, optVars, concVars, items, resume_call, fetched>>

\* number of numbered credential variables the configuration may hold
MaxNumbered == 2
\* number of invocations in one run
MaxCalls == 2

\* a credential is named by the variable that holds it: 0 is GOOGLE_API_KEY,
\* i >= 1 the i-th numbered variable
GOOGLE_API_KEY == 0
NoKey == 0 - 1
AllCreds == 0..MaxNumbered

Environments == [legacy : {"unset", "empty", "set"}, numbered : SUBSET (1..MaxNumbered)]

\* the exceptions a generation attempt raises: quota exhaustion, rejected
\* authorization, upstream server error, and response.text on a blocked answer
ExceptionKinds == {"ResourceExhausted", "PermissionDenied", "InternalServerError", "ValueError"}

\* variant: a handler for the service's own errors only
ExceptException_api_errors(kind) ==
    kind \in {"ResourceExhausted", "PermissionDenied", "InternalServerError"}

\* "except Exception" catches every class derived from Exception
ExceptException(kind) == kind \in ExceptionKinds

SampleDict == PyDict(<<"a">> :> PyInt(1))
SampleList == PyList(<<SampleDict>>)
FencedDict == PyDict(<<"a">> :> PyStr(FenceClose))

\* response.text of a successful attempt
ResponseTexts ==
    { json_dumps(SampleDict, "default"),
      FenceOpen \o <<"\n">> \o json_dumps(SampleDict, "default") \o <<"\n">> \o FenceClose,
      <<"o", "k", ":", " ">> \o json_dumps(SampleDict, "compact") \o <<" ", "!">>,
      json_dumps(SampleList, "default"),
      json_dumps(FencedDict, "default"),
      json_dumps(EmptyDict, "default"),
      <<"n", "o">>,
      <<>> }

\* role_response.text of the role-inference request
RoleTexts ==
    { <<"Q", "A">>,
      <<" ", "Q", "A", " ", "l", "e", "a", "d", "\n">>,
      <<"a", " ", "b", " ", "c", " ", "d", " ", "e">>,
      <<" ">> }

\* the credentials the configuration e holds
Configured(e) == (IF e.legacy = "set" THEN {GOOGLE_API_KEY} ELSE {}) \cup e.numbered

\* the behaviour of the remote service during one invocation: the credentials
\* it rejects and with which exception, and the text it answers otherwise
Worlds ==
    [fails : SUBSET Configured(env), kind : ExceptionKinds, text : ResponseTexts,
     jd : {FALSE}, roleFails : {FALSE}, roleText : {<<"Q", "A">>}]

\* the same for generate_full_resume_analysis: no job description is given, or
\* the role-inference request fails, or it is answered with a role text
AnalysisWorlds ==
    [fails : SUBSET Configured(env), kind : ExceptionKinds, text : ResponseTexts,
     jd : {FALSE}, roleFails : {FALSE}, roleText : {<<"Q", "A">>}]
    \cup [fails : SUBSET Configured(env), kind : ExceptionKinds, text : ResponseTexts,
          jd : {TRUE}, roleFails : {TRUE}, roleText : {<<"Q", "A">>}]
    \cup [fails : SUBSET Configured(env), kind : ExceptionKinds, text : ResponseTexts,
          jd : {TRUE}, roleFails : {FALSE}, roleText : RoleTexts]

NoWorld == [fails |-> {}, kind |-> "ValueError", text |-> <<>>,
            jd |-> FALSE, roleFails |-> FALSE, roleText |-> <<"Q", "A">>]

\* variant: the failure is printed and the import goes on
setup_api_no_exit ==
    /\ pc = "import"
    /\ pc' = "serving"
    /\ api_key' = IF env.legacy # "set" THEN api_key ELSE GOOGLE_API_KEY
    /\ UNCHANGED <<env, calls, site, world, attempts, result, failed_before>>
    /\ UNCHANGED besideProc

\* variant: "if api_key is None", which lets the empty string through
setup_api_is_none ==
    /\ pc = "import"
    /\ IF env.legacy = "unset"
       THEN /\ pc' = "exited"
            /\ api_key' = api_key
       ELSE /\ pc' = "serving"
            /\ api_key' = GOOGLE_API_KEY
    /\ UNCHANGED <<env, calls, site, world, attempts, result, failed_before>>
    /\ UNCHANGED besideProc

\* setup_api(): read GOOGLE_API_KEY, configure the client or exit(1)
setup_api ==
    /\ pc = "import"
    /\ IF env.legacy # "set"
       THEN /\ pc' = "exited"
            /\ api_key' = api_key
       ELSE /\ pc' = "serving"
            /\ api_key' = GOOGLE_API_KEY
    /\ UNCHANGED <<env, calls, site, world, attempts, result, failed_before>>
    /\ UNCHANGED besideProc

\* model.generate_content(prompt): one attempt with the configured credential
generate_content(key, request, w) ==
    IF request = "role"
    THEN [cred |-> key, request |-> request, ok |-> key # NoKey /\ ~w.roleFails]
    ELSE [cred |-> key, request |-> request, ok |-> key # NoKey /\ key \notin w.fails]

\* len(s.split()): the number of whitespace-separated words
WordCount(s) ==
    Cardinality({i \in 1..Len(s) :
        s[i] \notin PyWhitespace /\ (i = 1 \/ s[i-1] \in PyWhitespace)})

\* the credentials whose attempt failed in the invocation just finished
FailedNow == {attempts[i].cred : i \in {j \in 1..Len(attempts) : ~attempts[j].ok}}

\* the server is up and takes a request
Accepting == pc = "serving" /\ calls < MaxCalls

\* variant: a credential whose attempt failed is dropped from the client
Invoke_drops_failed(name, w, atts, res) ==
    /\ pc' = "returned"
    /\ site' = name
    /\ world' = w
    /\ attempts' = atts
    /\ result' = res
    /\ calls' = calls + 1
    /\ api_key' = IF \E i \in 1..Len(atts) : ~atts[i].ok THEN NoKey ELSE api_key
    /\ UNCHANGED <<env, failed_before>>
    /\ UNCHANGED besideProc

\* one invocation of a call site: the attempts it made and what it gave back;
\* nothing else of the process changes
Invoke(name, w, atts, res) ==
    /\ pc' = "returned"
    /\ site' = name
    /\ world' = w
    /\ attempts' = atts
    /\ result' = res
    /\ calls' = calls + 1
    /\ UNCHANGED <<env, api_key, failed_before>>
    /\ UNCHANGED besideProc

\* the caller has its answer and the server waits for the next request
next_request ==
    /\ pc = "returned"
    /\ pc' = "serving"
    /\ failed_before' = failed_before \cup FailedNow
    /\ site' = "none"
    /\ world' = NoWorld
    /\ attempts' = <<>>
    /\ result' = Return(None)
    /\ UNCHANGED <<env, api_key, calls>>
    /\ UNCHANGED besideProc

\* variant: the handler re-raises, as get_chatbot_response does
TryExcept_reraise(a, w, body) ==
    IF a.ok THEN (IF body.raised THEN Raise ELSE body) ELSE Raise

\* try: response = model.generate_content(...); <body>
\* except Exception as e: return None
TryExcept(a, w, body) ==
    IF a.ok THEN (IF body.raised THEN Return(None) ELSE body)
    ELSE IF ExceptException(w.kind) THEN Return(None) ELSE Raise

\* variant: the test is inverted, "if data: return None"
NoneIfFalsy_inverted(data) ==
    IF data.raised THEN Raise
    ELSE IF Truthy(data.val) THEN Return(None) ELSE Return(data.val)

\* variant: "return data or {}", an empty result in place of None
NoneIfFalsy_or_empty(data) ==
    IF data.raised THEN Raise
    ELSE IF ~Truthy(data.val) THEN Return(EmptyDict) ELSE Return(data.val)

\* if not data: return None
\* return data
NoneIfFalsy(data) ==
    IF data.raised THEN Raise
    ELSE IF ~Truthy(data.val) THEN Return(None) ELSE Return(data.val)

\* data = _safe_json_loads(response.text, fallback=None)
DataOrNone(text) == NoneIfFalsy(_safe_json_loads(PyStr(text), None))

\* if not data or not isinstance(data, kind): return None
NoneUnlessType(data, kind) ==
    IF data.raised THEN Raise
    ELSE IF ~Truthy(data.val) \/ data.val.t # kind THEN Return(None) ELSE Return(data.val)

DataOfTypeOrNone(text, kind) == NoneUnlessType(_safe_json_loads(PyStr(text), None), kind)

\* json.loads raising JSONDecodeError inside the call site's try block
LoadedOrRaise(loaded) == IF loaded.ok THEN Return(loaded.val) ELSE Raise

\* cleaned = response.text.replace('```json', '').replace('```', '').strip()
\* return json.loads(cleaned)
ReplacedAndLoaded(text) ==
    LoadedOrRaise(json_loads(strip(remove(remove(text, FenceOpen), FenceClose))))

get_resume_structure ==
    /\ Accepting
    /\ \E w \in Worlds :
        LET a == generate_content(api_key, "main", w)
        IN Invoke("get_resume_structure", w, <<a>>, TryExcept(a, w, DataOrNone(w.text)))

categorize_skills_from_text ==
    /\ Accepting
    /\ \E w \in Worlds :
        LET a == generate_content(api_key, "main", w)
        IN Invoke("categorize_skills_from_text", w, <<a>>, TryExcept(a, w, DataOrNone(w.text)))

optimize_for_linkedin ==
    /\ Accepting
    /\ \E w \in Worlds :
        LET a == generate_content(api_key, "main", w)
        IN Invoke("optimize_for_linkedin", w, <<a>>, TryExcept(a, w, DataOrNone(w.text)))

generate_career_roadmap ==
    /\ Accepting
    /\ \E w \in Worlds :
        LET a == generate_content(api_key, "main", w)
        IN Invoke("generate_career_roadmap", w, <<a>>, TryExcept(a, w, ReplacedAndLoaded(w.text)))

get_tutor_explanation ==
    /\ Accepting
    /\ \E w \in Worlds :
        LET a == generate_content(api_key, "main", w)
        IN Invoke("get_tutor_explanation", w, <<a>>, TryExcept(a, w, ReplacedAndLoaded(w.text)))

\* variant: the list is returned bare, "return questions"
Questions_bare(questions) == questions

\* return {"questions": questions_list}
Questions(questions) ==
    IF questions.raised \/ questions.val = None THEN questions
    ELSE Return(PyDict(<<"questions">> :> questions.val))

generate_assessment_questions ==
    /\ Accepting
    /\ \E w \in Worlds :
        LET a == generate_content(api_key, "main", w)
        IN Invoke("generate_assessment_questions", w, <<a>>,
                  TryExcept(a, w, Questions(DataOfTypeOrNone(w.text, "list"))))

evaluate_assessment_answers ==
    /\ Accepting
    /\ \E w \in Worlds :
        LET a == generate_content(api_key, "main", w)
        IN Invoke("evaluate_assessment_answers", w, <<a>>,
                  TryExcept(a, w, DataOfTypeOrNone(w.text, "dict")))

GeneralCandidate == <<"General Candidate">>
Today == PyStr(<<"datetime.now()">>)

\* if inferred_role and len(inferred_role.split()) < 5: job_role_hint = inferred_role
InferredOrGeneral(inferred_role) ==
    IF inferred_role # <<>> /\ WordCount(inferred_role) < 5
    THEN inferred_role ELSE GeneralCandidate

\* job_role_hint after the optional role-inference request
JobRoleHint(w, role) ==
    IF w.jd /\ role.ok THEN InferredOrGeneral(strip(w.roleText)) ELSE GeneralCandidate

\* analysis_data['analysis_date'] = ...; the inferred role overrides
\* analysis_data['job_role_context']
Dated(analysis_data, job_role_hint) ==
    IF analysis_data.raised \/ analysis_data.val = None THEN analysis_data
    ELSE Return(PyDict((<<"analysis_date">> :> Today)
                 @@ (IF job_role_hint # GeneralCandidate
                     THEN (<<"job_role_context">> :> PyStr(job_role_hint)) @@ analysis_data.val.v
                     ELSE analysis_data.val.v)))

generate_full_resume_analysis ==
    /\ Accepting
    /\ \E w \in AnalysisWorlds :
        LET role == generate_content(api_key, "role", w)
            a == generate_content(api_key, "main", w)
        IN IF w.jd /\ ~role.ok /\ ~ExceptException(w.kind)
           THEN Invoke("generate_full_resume_analysis", w, <<role>>, Raise)
           ELSE Invoke("generate_full_resume_analysis", w, IF w.jd THEN <<role, a>> ELSE <<a>>,
                       TryExcept(a, w, Dated(DataOfTypeOrNone(w.text, "dict"), JobRoleHint(w, role))))

get_interview_summary ==
    /\ Accepting
    /\ \E w \in Worlds :
        LET a == generate_content(api_key, "main", w)
        IN Invoke("get_interview_summary", w, <<a>>, TryExcept(a, w, DataOrNone(w.text)))

ProcInit ==
    /\ env \in Environments
    /\ pc = "import"
    /\ api_key = NoKey
    /\ calls = 0
    /\ site = "none"
    /\ world = NoWorld
    /\ attempts = <<>>
    /\ result = Return(None)
    /\ failed_before = {}

NormIdle ==
    /\ raw = None
    /\ fallback = None
    /\ made = [shape |-> "none", value |-> None, style |-> "default"]
    /\ parsed = Return(None)
    /\ npc = "done"

Init == ProcInit /\ NormIdle /\ ChatIdle /\ StoreIdle /\ HttpIdle /\ OptIdle /\ ConcIdle /\ ResumeIdle

Next ==
    \/ setup_api
    \/ get_resume_structure
    \/ categorize_skills_from_text
    \/ optimize_for_linkedin
    \/ generate_career_roadmap
    \/ get_tutor_explanation
    \/ generate_assessment_questions
    \/ evaluate_assessment_answers
    \/ generate_full_resume_analysis
    \/ get_interview_summary
    \/ next_request

Spec == Init /\ [][Next]_vars

(***************************************************************************)
(* _safe_json_loads on its own: texts produced from JSON values and        *)
(* arbitrary short texts                                                   *)
(***************************************************************************)
\* nesting depth of the JSON values
MaxDepth == 2
\* number of items of a list, of members of a dict
MaxItems == 2
\* length of the arbitrary texts
MaxTextLen == 4

IntSamples == {0 - 12, 0, 7, 10}
StringSamples ==
    { <<>>, <<"a">>, <<"\"">>, <<"\\">>, <<"\n">>, <<" ">>, <<"{">>, <<"}", "{">>,
      FenceClose, FenceOpen, <<"n", "u", "l", "l">> }
KeySamples == { <<"a">>, <<"b", "\"">>, <<>> }
TextChars == {"{", "}", "\"", "a", ":", "1", " ", Backtick}

Scalars ==
    {None, PyBool(TRUE), PyBool(FALSE)} \cup {PyInt(n) : n \in IntSamples}
        \cup {PyStr(c) : c \in StringSamples}

SeqsUpTo(S, n) == UNION {[1..k -> S] : k \in 0..n}

ListsOf(S) == {PyList(q) : q \in SeqsUpTo(S, MaxItems)}

DictsOf(S) ==
    {PyDict(f) : f \in UNION {[K -> S] : K \in {X \in SUBSET KeySamples : Cardinality(X) <= MaxItems}}}

\* the values nested inside a container of depth d
RECURSIVE Inner(_)
Inner(d) ==
    LET core == {None, PyInt(1), PyStr(<<"}">>)}
    IN IF d = 0 THEN core
       ELSE core \cup {PyList(<<x>>) : x \in Inner(d - 1)}
                 \cup {PyDict(<<"a">> :> x) : x \in Inner(d - 1)}

\* scalars, containers nested MaxDepth deep, and containers of up to MaxItems
\* scalars or one-item containers
JsonValues ==
    Scalars \cup Inner(MaxDepth) \cup ListsOf(Inner(1)) \cup DictsOf(Inner(1))

Styles == {"default", "compact", "indent"}

\* whitespace around and inside a fenced answer
FenceLayouts ==
    { [lead |-> <<>>, gap1 |-> <<"\n">>, gap2 |-> <<"\n">>, trail |-> <<>>],
      [lead |-> <<" ">>, gap1 |-> <<>>, gap2 |-> <<>>, trail |-> <<"\n">>],
      [lead |-> <<"\n", "\f">>, gap1 |-> <<" ">>, gap2 |-> <<" ", "\n">>, trail |-> <<" ">>] }

\* prose around an answer
ProseLayouts ==
    { [lead |-> <<"o", "k", ":", " ">>, trail |-> <<" ", "!">>],
      [lead |-> <<"{", " ">>, trail |-> <<>>],
      [lead |-> <<>>, trail |-> <<"\n", "}", ".">>] }

Fallbacks == {None, PyStr(<<"fallback">>)}

Fenced(text, l) == l.lead \o FenceOpen \o l.gap1 \o text \o l.gap2 \o FenceClose \o l.trail

NormInit ==
    /\ fallback \in Fallbacks
    /\ parsed = Return(None)
    /\ npc = "text"
    /\ \/ /\ raw = None
          /\ made = [shape |-> "absent", value |-> None, style |-> "default"]
       \/ /\ raw \in {PyStr(q) : q \in SeqsUpTo(TextChars, MaxTextLen)}
          /\ made = [shape |-> "text", value |-> None, style |-> "default"]
       \/ \E V \in JsonValues, st \in Styles :
            \/ /\ raw = PyStr(json_dumps(V, st))
               /\ made = [shape |-> "dumps", value |-> V, style |-> st]
            \/ /\ raw \in {PyStr(Fenced(json_dumps(V, st), l)) : l \in FenceLayouts}
               /\ made = [shape |-> "fenced", value |-> V, style |-> st]
            \/ /\ raw \in {PyStr(l.lead \o json_dumps(V, st) \o l.trail) : l \in ProseLayouts}
               /\ made = [shape |-> "prose", value |-> V, style |-> st]

\* data = _safe_json_loads(response.text, fallback)
Load ==
    /\ npc = "text"
    /\ parsed' = _safe_json_loads(raw, fallback)
    /\ npc' = "done"
    /\ UNCHANGED <<raw, fallback, made>>
    /\ UNCHANGED besideNorm

ProcIdle ==
    /\ env = [legacy |-> "set", numbered |-> {}]
    /\ pc = "exited"
    /\ api_key = GOOGLE_API_KEY
    /\ calls = 0
    /\ site = "none"
    /\ world = NoWorld
    /\ attempts = <<>>
    /\ result = Return(None)
    /\ failed_before = {}

InitNorm == NormInit /\ ProcIdle /\ ChatIdle /\ StoreIdle /\ HttpIdle /\ OptIdle /\ ConcIdle /\ ResumeIdle

NextNorm == Load

SpecNorm == InitNorm /\ [][NextNorm]_vars

(***************************************************************************)
(* Properties of _safe_json_loads, checked under SpecNorm                  *)
(***************************************************************************)
RawText == IF raw.t = "str" THEN raw.v ELSE <<>>

\* the part of a text from its first "{" to its last "}", if there is one
BraceDelimited(s) ==
    LET opens == {i \in 1..Len(s) : s[i] = "{"}
        closes == {i \in 1..Len(s) : s[i] = "}"}
        first == CHOOSE i \in opens : \A k \in opens : i <= k
        last == CHOOSE i \in closes : \A k \in closes : k <= i
    IN IF opens # {} /\ closes # {} /\ first < last THEN {SubStr(s, first, last)} ELSE {}

ValidJson(s) == json_loads(s).ok

\* neither the cleaned text nor its brace-delimited part is valid JSON
NothingUsable ==
    /\ ~ValidJson(CleanedText(RawText))
    /\ \A sub \in BraceDelimited(CleanedText(RawText)) : ~ValidJson(sub)

C8_RoundTrip ==
    (npc = "done" /\ made.shape = "dumps") => parsed = Return(made.value)

\* a nested dict went through dumps and _safe_json_loads
C8_Witness ==
    /\ npc = "done"
    /\ made.shape = "dumps"
    /\ made.value.t = "dict"
    /\ \E k \in DOMAIN made.value.v : made.value.v[k].t \in {"dict", "list"}
    /\ parsed = Return(made.value)

IsPrefixOf(p, s) == startswith(s, p)
IsSuffixOf(p, s) == endswith(s, p)

\* C9: a serialized value between a JSON fence opener and a closing fence,
\* with whitespace around either, loads as the value; and nothing is cut from
\* the front of a trimmed text that does not begin with the opener, nothing
\* from the end of one that does not end with the closing fence.
C9_FenceTolerance ==
    npc = "done" =>
        /\ made.shape = "fenced" => parsed = Return(made.value)
        /\ ~startswith(strip(RawText), FenceOpen)
              => IsPrefixOf(CleanedText(RawText), strip(RawText))
        /\ ~endswith(strip(RawText), FenceClose)
              => IsSuffixOf(CleanedText(RawText), strip(RawText))

\* a fenced dict with whitespace before the opener was loaded
C9_Witness ==
    /\ npc = "done"
    /\ made.shape = "fenced"
    /\ RawText[1] \in PyWhitespace
    /\ made.value.t = "dict"
    /\ DOMAIN made.value.v # {}
    /\ parsed = Return(made.value)

\* C10: when the strict parse of the cleaned text fails, the result is the
\* parse of the part of the text from its first "{" to its last "}" if that
\* part exists and is valid JSON, and the fallback otherwise.
C10_SubstringRecovery ==
    (npc = "done" /\ raw.t = "str" /\ ~ValidJson(CleanedText(RawText))) =>
        IF \E sub \in BraceDelimited(RawText) : ValidJson(sub)
        THEN \A sub \in BraceDelimited(RawText) : parsed = Return(json_loads(sub).val)
        ELSE parsed = Return(fallback)

\* a nested dict was recovered out of surrounding prose
C10_Witness ==
    /\ npc = "done"
    /\ made.shape = "prose"
    /\ ~ValidJson(CleanedText(RawText))
    /\ made.value.t = "dict"
    /\ \E k \in DOMAIN made.value.v : made.value.v[k].t = "dict"
    /\ parsed = Return(made.value)
    /\ fallback # None

(***************************************************************************)
(* Properties of the credential set-up and the call sites, checked under   *)
(* Spec                                                                    *)
(***************************************************************************)
\* the credentials the client holds
Pool == IF api_key = NoKey THEN <<>> ELSE <<api_key>>

\* the pool as a numbered configuration describes it: slot 1 (the legacy
\* variable, which is the one the set-up reads, or else the first numbered
\* one), then the numbered variables up to the first missing index
NumberedPool(e) ==
    LET slot1 == IF e.legacy = "set" THEN <<GOOGLE_API_KEY>>
                 ELSE IF 1 \in e.numbered THEN <<1>> ELSE <<>>
        n == CHOOSE k \in 1..(MaxNumbered + 1) :
                 /\ \A i \in 2..k : i \in e.numbered
                 /\ (k + 1) \notin e.numbered \/ k = MaxNumbered + 1
    IN IF slot1 = <<>> THEN <<>>
       ELSE slot1 \o [i \in 1..((IF n > MaxNumbered THEN MaxNumbered ELSE n) - 1) |-> i + 1]

IsMain(a) == a.request = "main"
IsRole(a) == a.request = "role"
MainAttempts == SelectSeq(attempts, IsMain)
RoleAttempts == SelectSeq(attempts, IsRole)

\* the call sites that hand back the loaded value as it is
PlainSites ==
    {"get_resume_structure", "categorize_skills_from_text", "optimize_for_linkedin",
     "generate_career_roadmap", "get_tutor_explanation", "evaluate_assessment_answers",
     "get_interview_summary"}

\* the lowest index of the pool P whose credential the service accepts
FirstAccepted(P) == {k \in 1..Len(P) : P[k] \notin world.fails /\ \A j \in 1..(k-1) : P[j] \in world.fails}

\* C1 as stated: with credential k of the numbered pool the first to
\* succeed, the invocation attempts credentials 1..k in order and no other,
\* and the k-th attempt succeeds.
C1_Original ==
    pc = "returned" =>
        \A k \in FirstAccepted(NumberedPool(env)) :
            /\ Len(MainAttempts) = k
            /\ \A i \in 1..k : MainAttempts[i].cred = NumberedPool(env)[i]
            /\ MainAttempts[k].ok

\* C1 (amended): the pool is the one credential GOOGLE_API_KEY; when the
\* service accepts it, an invocation attempts its generation request exactly
\* once, attempts no other credential, and returns the payload of that attempt.
C1_SingleAttempt ==
    (pc = "returned" /\ GOOGLE_API_KEY \notin world.fails) =>
        /\ Len(MainAttempts) = 1
        /\ MainAttempts[1].ok
        /\ \A i \in 1..Len(attempts) : attempts[i].cred = GOOGLE_API_KEY
        /\ (site \in PlainSites /\ world.text = json_dumps(SampleDict, "default"))
              => result = Return(SampleDict)

\* other credentials are configured and rejected, GOOGLE_API_KEY is accepted
C1_Witness ==
    /\ pc = "returned"
    /\ site = "get_resume_structure"
    /\ env.numbered # {}
    /\ world.fails = env.numbered
    /\ Len(attempts) = 1
    /\ result = Return(SampleDict)

\* C2 as stated: when every credential of the numbered pool fails, each is
\* attempted exactly once and the invocation ends in failure.
C2_Original ==
    (pc = "returned" /\ \A i \in 1..Len(NumberedPool(env)) : NumberedPool(env)[i] \in world.fails) =>
        /\ Len(MainAttempts) = Len(NumberedPool(env))
        /\ \A i \in 1..Len(MainAttempts) : MainAttempts[i].cred = NumberedPool(env)[i]
        /\ result = Return(None)

\* C2 (amended): when the service rejects GOOGLE_API_KEY, the invocation has
\* attempted its generation request exactly once, with that credential, and
\* returns the failure value.
C2_OneFailedAttempt ==
    (pc = "returned" /\ GOOGLE_API_KEY \in world.fails) =>
        /\ Len(MainAttempts) = 1
        /\ MainAttempts[1].cred = GOOGLE_API_KEY
        /\ ~MainAttempts[1].ok
        /\ result = Return(None)

\* every configured credential is rejected, one attempt was made
C2_Witness ==
    /\ pc = "returned"
    /\ site = "categorize_skills_from_text"
    /\ Cardinality(Configured(env)) >= 2
    /\ world.fails = Configured(env)
    /\ Len(attempts) = 1
    /\ result = Return(None)

\* C3: no invocation changes the pool, and every invocation starts with the
\* first credential of the pool, whatever failed before.
C3_PoolUntouched ==
    [][ /\ pc # "import" => api_key' = api_key
        /\ (pc = "serving" /\ pc' = "returned") =>
              /\ attempts' # <<>>
              /\ attempts'[1].cred = Pool[1] ]_vars

\* the credential that failed in the first invocation is attempted in the second
C3_Witness ==
    /\ pc = "returned"
    /\ calls = 2
    /\ api_key \in failed_before
    /\ attempts[1].cred = api_key
    /\ Pool = <<GOOGLE_API_KEY>>

\* C4: with no credential configured the import exits; no request is served
\* with an empty pool.
C4_NoServiceWithoutCredential ==
    /\ Configured(env) = {} => (pc \in {"import", "exited"} /\ calls = 0)
    /\ pc \in {"serving", "returned"} => Pool # <<>>

\* the import of a configuration without credentials has ended in exit(1)
C4_Witness ==
    /\ pc = "exited"
    /\ Configured(env) = {}
    /\ calls = 0

\* C5 as stated: after the set-up the pool is the gap-free prefix of the
\* numbered configuration.
C5_Original == pc # "import" => Pool = NumberedPool(env)

\* C5 (amended): the pool is the value of GOOGLE_API_KEY alone; numbered
\* values are not read, and a configuration without a non-empty
\* GOOGLE_API_KEY exits whatever numbered values it holds.
C5_LegacyKeyOnly ==
    /\ pc \in {"serving", "returned"} => (env.legacy = "set" /\ Pool = <<GOOGLE_API_KEY>>)
    /\ pc = "exited" => (env.legacy # "set" /\ Pool = <<>>)

\* two consecutive numbered credentials are configured, the pool holds one
C5_Witness ==
    /\ pc = "serving"
    /\ {1, 2} \subseteq env.numbered
    /\ Len(Pool) = 1

\* C6 as stated: an exception in any generation attempt makes the operation
\* return its failure value.
C6_Original ==
    (pc = "returned" /\ \E i \in 1..Len(attempts) : ~attempts[i].ok) => result = Return(None)

\* C6 (amended): no exception of a generation attempt reaches the caller; an
\* exception in the operation's own generation request makes it return None;
\* an exception in the role-inference request of
\* generate_full_resume_analysis is dropped and the analysis goes on with the
\* default role.
C6_NoPropagation ==
    pc = "returned" =>
        /\ ~result.raised
        /\ (MainAttempts = <<>> \/ ~MainAttempts[1].ok) => result = Return(None)
        /\ ( /\ RoleAttempts # <<>>
             /\ ~RoleAttempts[1].ok
             /\ MainAttempts # <<>>
             /\ MainAttempts[1].ok
             /\ world.text = json_dumps(SampleDict, "default") )
              => result = Return(PyDict((<<"analysis_date">> :> Today) @@ SampleDict.v))

\* the role inference raised, the analysis was returned all the same
C6_Witness ==
    /\ pc = "returned"
    /\ site = "generate_full_resume_analysis"
    /\ world.kind = "ValueError"
    /\ Len(attempts) = 2
    /\ ~attempts[1].ok
    /\ attempts[2].ok
    /\ result.val.t = "dict"

(***************************************************************************)
(* Call sites and the loader, checked under Spec                           *)
(***************************************************************************)
\* the call sites that hand response.text to _safe_json_loads
NormalizingSites ==
    { "get_resume_structure", "categorize_skills_from_text", "optimize_for_linkedin",
      "generate_assessment_questions", "evaluate_assessment_answers",
      "generate_full_resume_analysis", "get_interview_summary" }

\* the call sites that clean response.text themselves
ReplacingSites == {"generate_career_roadmap", "get_tutor_explanation"}

\* the latest invocation got a response text from the service
Answered == pc = "returned" /\ MainAttempts # <<>> /\ MainAttempts[1].ok

\* what _safe_json_loads makes of the response text of the latest invocation
Normalized == _safe_json_loads(PyStr(world.text), None)

\* C11: when _safe_json_loads yields the fallback (None) for the response
\* text, a normalizing call site returns its failure value None, so nothing
\* of the raw text reaches the caller.
C11_NoUnusableOutput ==
    (Answered /\ site \in NormalizingSites /\ Normalized = Return(None))
        => result = Return(None)

\* a text that is no JSON was answered and the call site returned None
C11_Witness ==
    /\ Answered
    /\ site = "generate_assessment_questions"
    /\ world.text = <<"n", "o">>
    /\ Normalized = Return(None)
    /\ result = Return(None)

\* C12 as stated: every operation returns what _safe_json_loads makes of the
\* response text, a failure exactly when that is the fallback.
C12_Original ==
    (Answered /\ site \in NormalizingSites \cup ReplacingSites) => result = Normalized

\* the members of a dict result other than the two the analysis sets itself
Untouched(f) == (DOMAIN f) \ {<<"analysis_date">>, <<"job_role_context">>}

\* C12 (amended): a normalizing call site fails when the loader's result is
\* falsy (the fallback, or an empty or zero value) or not of the type it asks
\* for, and otherwise returns the loader's result: as it is, under the key
\* "questions", or with analysis_date (and the inferred role) set.
\* generate_career_roadmap and get_tutor_explanation do not call the loader:
\* they return the strict parse of the text with every fence marker removed,
\* None when that fails; for a text without backticks this is the loader's
\* result only if the stripped text parses strictly.
C12_NormalizerUse ==
    Answered =>
        LET n == Normalized.val
            strict == json_loads(strip(world.text))
            replaced == json_loads(strip(remove(remove(world.text, FenceOpen), FenceClose)))
        IN /\ site \in {"get_resume_structure", "categorize_skills_from_text",
                        "optimize_for_linkedin", "get_interview_summary"}
                => result = (IF Truthy(n) THEN Return(n) ELSE Return(None))
           /\ site = "evaluate_assessment_answers"
                => result = (IF Truthy(n) /\ n.t = "dict" THEN Return(n) ELSE Return(None))
           /\ site = "generate_assessment_questions"
                => result = (IF Truthy(n) /\ n.t = "list"
                             THEN Return(PyDict(<<"questions">> :> n)) ELSE Return(None))
           /\ site = "generate_full_resume_analysis"
                => IF Truthy(n) /\ n.t = "dict"
                   THEN /\ ~result.raised
                        /\ result.val.t = "dict"
                        /\ <<"analysis_date">> \in DOMAIN result.val.v
                        /\ Untouched(result.val.v) = Untouched(n.v)
                        /\ \A k \in Untouched(n.v) : result.val.v[k] = n.v[k]
                   ELSE result = Return(None)
           /\ site \in ReplacingSites
                => /\ result = (IF replaced.ok THEN Return(replaced.val) ELSE Return(None))
                   /\ (\A i \in 1..Len(world.text) : world.text[i] # Backtick)
                        => result = (IF strict.ok THEN Normalized ELSE Return(None))

\* a JSON object wrapped in prose: the loader recovers it, the roadmap call
\* site fails
C12_Witness ==
    /\ Answered
    /\ site = "generate_career_roadmap"
    /\ Normalized = Return(SampleDict)
    /\ result = Return(None)

(***************************************************************************)
(* Conversational calls: get_chatbot_response, get_interview_chat_response *)
(***************************************************************************)
\* longest caller history
MaxHistory == 2

ChatRoles == {"user", "assistant", "model"}
ChatContents == {"", "hi", "ok"}

\* the caller's history: a list of {'role': ..., 'content': ...}
Histories == SeqsUpTo([role : ChatRoles, content : ChatContents], MaxHistory)

Queries == {"q1", "q2"}

\* how the remote service answers send_message: an exception, or a response
\* whose text may be empty
ChatWorlds ==
    {[fails |-> TRUE, kind |-> k, text |-> ""] : k \in ExceptionKinds}
        \cup {[fails |-> FALSE, kind |-> "ValueError", text |-> t] : t \in {"", "reply"}}

\* one turn of the history given to start_chat; from is the position of the
\* caller's turn it was made of, 0 for a turn the call site wrote itself
Turn(role, text, from) == [role |-> role, text |-> text, from |-> from]

\* model.start_chat(history=...), chat_session.send_message(...)
StartChat(history) == [op |-> "start_chat", history |-> history, text |-> ""]
SendMessage(text) == [op |-> "send_message", history |-> <<>>, text |-> text]

\* role = 'user' if message.get('role') == 'user' else 'model'
\* content = message.get('content', '')
ModelTurns(history) ==
    [i \in 1..Len(history) |->
        Turn(IF history[i].role = "user" THEN "user" ELSE "model", history[i].content, i)]

\* variant: each message is put in front, model_history.insert(0, ...)
ModelHistory_insert_front(history) ==
    LET kept == SelectSeq(ModelTurns(history), LAMBDA t : t.text # "")
    IN [i \in 1..Len(kept) |-> kept[Len(kept) + 1 - i]]

\* for message in history: if content: model_history.append(...)
ModelHistory(history) == SelectSeq(ModelTurns(history), LAMBDA t : t.text # "")

\* full_prompt = f"{system_prompt}\n\nUSER QUESTION: {query}"
FullPrompt(query) == <<"system_prompt", "\n\nUSER QUESTION: ", query>>

Apology == "I'm sorry, I couldn't generate a response for that. Please try rephrasing your question."

\* if not response.text: return {"response": "I'm sorry, ..."}
\* return {"response": response.text}
\* except Exception as e: raise e
ChatbotReply(w) ==
    IF w.fails THEN Raise
    ELSE IF w.text = "" THEN Return(PyDict(<<"response">> :> PyStr(Apology)))
    ELSE Return(PyDict(<<"response">> :> PyStr(w.text)))

SystemInstruction == "system_instruction"
Understood == "Understood. I am ready to begin the interview."

\* formatted_history = [{'role': msg['role'], 'parts': [{'text': msg['content']}]} ...]
\* full_history = [system turn, model turn] + formatted_history
FullHistory(history) ==
    <<Turn("user", SystemInstruction, 0), Turn("model", Understood, 0)>>
        \o [i \in 1..Len(history) |-> Turn(history[i].role, history[i].content, i)]

\* return {"reply": response.text}
\* except Exception as e: return None
InterviewReply(w) ==
    IF w.fails
    THEN (IF ExceptException(w.kind) THEN Return(None) ELSE Raise)
    ELSE Return(PyDict(<<"reply">> :> PyStr(w.text)))

ChatInit ==
    /\ chat_request \in [site : {"get_chatbot_response", "get_interview_chat_response"},
                         history : Histories, query : Queries]
    /\ wire = <<>>
    /\ chat_result = Return(None)
    /\ cpc = "called"

get_chatbot_response ==
    /\ cpc = "called"
    /\ chat_request.site = "get_chatbot_response"
    /\ \E w \in ChatWorlds :
        /\ wire' = <<StartChat(ModelHistory(chat_request.history)),
                     SendMessage(FullPrompt(chat_request.query))>>
        /\ chat_result' = ChatbotReply(w)
    /\ cpc' = "returned"
    /\ UNCHANGED chat_request
    /\ UNCHANGED besideChat

get_interview_chat_response ==
    /\ cpc = "called"
    /\ chat_request.site = "get_interview_chat_response"
    /\ \E w \in ChatWorlds :
        LET full_history == FullHistory(chat_request.history)
        IN /\ wire' = <<StartChat(SubSeq(full_history, 1, Len(full_history) - 1)),
                        SendMessage(<<full_history[Len(full_history)].text>>)>>
           /\ chat_result' = InterviewReply(w)
    /\ cpc' = "returned"
    /\ UNCHANGED chat_request
    /\ UNCHANGED besideChat

InitChat == ChatInit /\ ProcIdle /\ NormIdle /\ StoreIdle /\ HttpIdle /\ OptIdle /\ ConcIdle /\ ResumeIdle

NextChat ==
    \/ get_chatbot_response
    \/ get_interview_chat_response

SpecChat == InitChat /\ [][NextChat]_vars

\* the turns of the caller among those given to start_chat
Replayed == SelectSeq(wire[1].history, LAMBDA t : t.from # 0)

\* the caller's turns that come before the newest turn
PriorTurns ==
    IF chat_request.site = "get_chatbot_response"
    THEN {i \in 1..Len(chat_request.history) : chat_request.history[i].content # ""}
    ELSE 1..(Len(chat_request.history) - 1)

\* the newest turn: the query, or the last message of the interview history
Newest ==
    IF chat_request.site = "get_chatbot_response" THEN chat_request.query
    ELSE chat_request.history[Len(chat_request.history)].content

MaxServers == 2

Servers == 1..MaxServers

StatNames == {"roadmaps_generated", "resumes_optimized", "assessments_taken", "jobs_matched"}

\* 'roadmaps_generated': 0, 'resumes_optimized': 0, 'assessments_taken': 0, 'jobs_matched': 0
ZeroStats == [n \in StatNames |-> 0]

\* the field 'stats' of users/{uid}: absent, not a dict, or a dict of numbers
NoStats == [t |-> "absent", v |-> <<>>]
OtherStats == [t |-> "other", v |-> <<>>]
StatsMap(f) == [t |-> "map", v |-> f]

UserDoc(stats) == [exists |-> TRUE, stats |-> stats]

\* firestore.Increment(d) applied to a field of a map: an absent field counts as 0
Increment(f, stat_name, d) ==
    IF stat_name \in DOMAIN f THEN [f EXCEPT ![stat_name] = @ + d] ELSE (stat_name :> d) @@ f

\* {'roadmaps_generated': 0, ..., stat_name: firestore.Increment(increment_by)}
InitialStats(stat_name, increment_by) == StatsMap(Increment([n \in StatNames \ {stat_name} |-> 0], stat_name, increment_by))

\* the write increment_user_stat makes after it read the document as seen:
\* set() of a new document, update() of the whole 'stats' field, or update()
\* of 'stats.<stat_name>' with firestore.Increment
StatWrite(seen, doc, stat_name, increment_by) ==
    IF ~seen.exists THEN UserDoc(InitialStats(stat_name, increment_by))
    ELSE IF seen.stats.t # "map" THEN UserDoc(InitialStats(stat_name, increment_by))
    ELSE IF doc.stats.t = "map" THEN UserDoc(StatsMap(Increment(doc.stats.v, stat_name, increment_by)))
    ELSE UserDoc(StatsMap(stat_name :> increment_by))

\* doc.reference.delete() for the documents ids
Deleted(collection, ids) == [i \in (DOMAIN collection) \ ids |-> collection[i]]

\* roadmaps_collection.add(data): a document with a new id
Added(collection, id, data) == (id :> data) @@ collection

NoOp == [op |-> "none", pc |-> "done", seen_docs |-> {}, seen_user |-> MissingDoc,
         stat_name |-> "roadmaps_generated", increment_by |-> 0]

SaveOp == [NoOp EXCEPT !.op = "save_user_roadmap", !.pc = "start"]

IncrementOp(stat_name, increment_by) ==
    [NoOp EXCEPT !.op = "increment_user_stat", !.pc = "start",
                 !.stat_name = stat_name, !.increment_by = increment_by]

\* record_roadmap_generation, record_resume_optimization (by 1), record_jobs_matched (by num_jobs)
StoreOps ==
    {SaveOp, IncrementOp("roadmaps_generated", 1), IncrementOp("resumes_optimized", 1),
     IncrementOp("jobs_matched", 2)}

InitialDocs ==
    {MissingDoc, UserDoc(NoStats), UserDoc(OtherStats), UserDoc(StatsMap(ZeroStats)),
     UserDoc(StatsMap([ZeroStats EXCEPT !["roadmaps_generated"] = 3])),
     UserDoc(StatsMap("resumes_optimized" :> 1))}

StoreInit ==
    /\ roadmaps \in {<<>>, 1 :> "old roadmap"}
    /\ added = Cardinality(DOMAIN roadmaps)
    /\ user_doc \in InitialDocs
    /\ initial_doc = user_doc
    /\ db_ops \in [Servers -> StoreOps]

\* existing_docs = roadmaps_collection.stream()
save_stream(s) ==
    /\ db_ops[s].op = "save_user_roadmap"
    /\ db_ops[s].pc = "start"
    /\ db_ops' = [db_ops EXCEPT ![s].seen_docs = DOMAIN roadmaps, ![s].pc = "deleting"]
    /\ UNCHANGED <<roadmaps, added, user_doc, initial_doc>>
    /\ UNCHANGED besideStore

\* for doc in existing_docs: doc.reference.delete()
save_delete(s) ==
    /\ db_ops[s].pc = "deleting"
    /\ \E id \in db_ops[s].seen_docs :
        /\ roadmaps' = Deleted(roadmaps, {id})
        /\ db_ops' = [db_ops EXCEPT ![s].seen_docs = @ \ {id}]
    /\ UNCHANGED <<added, user_doc, initial_doc>>
    /\ UNCHANGED besideStore

\* roadmaps_collection.add(data_to_add); return True
save_add(s) ==
    /\ db_ops[s].pc = "deleting"
    /\ db_ops[s].seen_docs = {}
    /\ roadmaps' = Added(roadmaps, added + 1, "new roadmap")
    /\ added' = added + 1
    /\ db_ops' = [db_ops EXCEPT ![s].pc = "done"]
    /\ UNCHANGED <<user_doc, initial_doc>>
    /\ UNCHANGED besideStore

\* user_doc = user_doc_ref.get()
increment_get(s) ==
    /\ db_ops[s].op = "increment_user_stat"
    /\ db_ops[s].pc = "start"
    /\ db_ops' = [db_ops EXCEPT ![s].seen_user = user_doc, ![s].pc = "read"]
    /\ UNCHANGED <<roadmaps, added, user_doc, initial_doc>>
    /\ UNCHANGED besideStore

\* user_doc_ref.set({...}), which puts the given fields in place of the whole
\* document, or user_doc_ref.update({...})
increment_write(s) ==
    /\ db_ops[s].pc = "read"
    /\ user_doc' = StatWrite(db_ops[s].seen_user, user_doc,
                             db_ops[s].stat_name, db_ops[s].increment_by)
    /\ user_fields' = IF db_ops[s].seen_user.exists THEN user_fields ELSE <<>>
    /\ db_ops' = [db_ops EXCEPT ![s].pc = "done"]
    /\ UNCHANGED <<roadmaps, added, initial_doc>>
    /\ UNCHANGED besideUserDoc

InitStore == StoreInit /\ ProcIdle /\ NormIdle /\ ChatIdle /\ HttpIdle /\ OptIdle /\ ConcIdle /\ ResumeIdle

NextStore ==
    \E s \in Servers :
        \/ save_stream(s)
        \/ save_delete(s)
        \/ save_add(s)
        \/ increment_get(s)
        \/ increment_write(s)

SpecStore == InitStore /\ [][NextStore]_vars

\* every store operation that was begun has completed
AllCompleted == \A s \in Servers : db_ops[s].pc = "done"

\* C18: once every save_user_roadmap call has completed, whatever the
\* interleaving of their reads, deletes and adds, and at least one was made,
\* the roadmaps collection holds exactly one document.
C18_OnlyOneRoadmap ==
    (AllCompleted /\ \E s \in Servers : db_ops[s].op = "save_user_roadmap")
        => Cardinality(DOMAIN roadmaps) = 1

\* the stored value of a statistic, 0 when it is absent
StatOf(doc, n) ==
    IF doc.exists /\ doc.stats.t = "map" /\ n \in DOMAIN doc.stats.v THEN doc.stats.v[n] ELSE 0

RECURSIVE SumOfIncrements(_, _)
SumOfIncrements(S, n) ==
    IF S = {} THEN 0
    ELSE LET s == CHOOSE x \in S : TRUE
         IN (IF db_ops[s].op = "increment_user_stat" /\ db_ops[s].stat_name = n
             THEN db_ops[s].increment_by ELSE 0) + SumOfIncrements(S \ {s}, n)

\* C19: once every increment_user_stat call has completed, each statistic
\* that was incremented equals its initial value (0 when absent) plus the
\* sum of the increments made to it, in any interleaving and from any
\* initial document.
C19_NoLostIncrement ==
    AllCompleted =>
        \A n \in StatNames :
            SumOfIncrements(Servers, n) # 0
                => StatOf(user_doc, n) = StatOf(initial_doc, n) + SumOfIncrements(Servers, n)

(***************************************************************************)
(* The HTTP handlers of routers/interview.py and routers/roadmap.py, each  *)
(* run to its end by one server process                                    *)
(***************************************************************************)
\* number of requests in one run
MaxRequests == 2

\* keys of the stored roadmap and of the interview summary, as texts
K_detailed_roadmap == <<"d", "e", "t", "a", "i", "l", "e", "d", "_", "r", "o", "a", "d", "m", "a", "p">>
K_topics == <<"t", "o", "p", "i", "c", "s">>
K_phase_title == <<"p", "h", "a", "s", "e", "_", "t", "i", "t", "l", "e">>
K_name == <<"n", "a", "m", "e">>
K_is_completed == <<"i", "s", "_", "c", "o", "m", "p", "l", "e", "t", "e", "d">>
K_overall_score == <<"o", "v", "e", "r", "a", "l", "l", "_", "s", "c", "o", "r", "e">>
K_strengths == <<"s", "t", "r", "e", "n", "g", "t", "h", "s">>
K_areas_for_improvement == <<"a", "r", "e", "a", "s", "_", "f", "o", "r", "_", "i", "m", "p", "r", "o", "v", "e", "m", "e", "n", "t">>
K_overall_feedback == <<"o", "v", "e", "r", "a", "l", "l", "_", "f", "e", "e", "d", "b", "a", "c", "k">>

\* a roadmap as generate_career_roadmap returns it, with one phase and one topic
PlanDict ==
    PyDict(K_detailed_roadmap :> PyList(<<
        PyDict((K_phase_title :> PyStr(<<"P">>)) @@ (K_topics :> PyList(<<PyStr(<<"T">>)>>)))>>))

\* a summary that SummaryResponse accepts
SummaryDict ==
    PyDict((K_overall_score :> PyInt(7)) @@ (K_strengths :> PyList(<<PyStr(<<"s">>)>>))
           @@ (K_areas_for_improvement :> PyList(<<>>)) @@ (K_overall_feedback :> PyStr(<<"f">>)))

\* the behaviour of the remote service during one request
HttpWorlds ==
    [fails : SUBSET {GOOGLE_API_KEY}, kind : {"ResourceExhausted", "ValueError"},
     text : {json_dumps(SampleDict, "default"), json_dumps(SampleList, "default"),
             json_dumps(EmptyDict, "default"), json_dumps(PlanDict, "default"),
             json_dumps(SummaryDict, "default"), <<"n", "o">>},
     jd : {FALSE}, roleFails : {FALSE}, roleText : {<<"Q", "A">>}]

\* {"name": topic, "is_completed": False} if isinstance(topic, str) else topic
TopicWithProgress(topic) ==
    IF topic.t = "str" THEN PyDict((K_name :> topic) @@ (K_is_completed :> PyBool(FALSE)))
    ELSE topic

MapList(list, Op(_)) == PyList([i \in 1..Len(list.v) |-> Op(list.v[i])])

\* if 'topics' in phase and isinstance(phase['topics'], list): phase['topics'] = [...]
PhaseWithProgress(phase) ==
    IF phase.t = "dict" /\ K_topics \in DOMAIN phase.v /\ phase.v[K_topics].t = "list"
    THEN PyDict([phase.v EXCEPT ![K_topics] = MapList(@, TopicWithProgress)])
    ELSE phase

\* "x in y" raises TypeError when y is no container
Container(x) == x.t \in {"dict", "list", "str"}

\* initialize_roadmap_progress(roadmap_data)
initialize_roadmap_progress(roadmap_data) ==
    IF ~Container(roadmap_data) THEN Raise
    ELSE IF roadmap_data.t # "dict" THEN Return(roadmap_data)
    ELSE IF K_detailed_roadmap \notin DOMAIN roadmap_data.v THEN Return(roadmap_data)
    ELSE IF roadmap_data.v[K_detailed_roadmap].t # "list" THEN Return(roadmap_data)
    ELSE IF \E i \in 1..Len(roadmap_data.v[K_detailed_roadmap].v) :
                ~Container(roadmap_data.v[K_detailed_roadmap].v[i])
    THEN Raise
    ELSE Return(PyDict([roadmap_data.v EXCEPT ![K_detailed_roadmap] = MapList(@, PhaseWithProgress)]))

\* dict.get(key)
Get(x, key) == IF key \in DOMAIN x.v THEN x.v[key] ELSE None

\* phase.get('phase_title') == phase_title and isinstance(phase.get('topics'), list)
\* and some topic is a dict with topic.get('name') == topic_name
TopicsWithName(phase, topic_name) ==
    {j \in 1..Len(Get(phase, K_topics).v) :
        /\ Get(phase, K_topics).v[j].t = "dict"
        /\ Get(Get(phase, K_topics).v[j], K_name) = PyStr(topic_name)}

PhaseHasTask(phase, phase_title, topic_name) ==
    /\ Get(phase, K_phase_title) = PyStr(phase_title)
    /\ Get(phase, K_topics).t = "list"
    /\ TopicsWithName(phase, topic_name) # {}

Least(S) == CHOOSE x \in S : \A y \in S : x <= y

\* topic['is_completed'] = is_completed, for the first topic of that name
CompletedIn(phase, topic_name, is_completed) ==
    PyDict([phase.v EXCEPT ![K_topics] =
        PyList([@.v EXCEPT ![Least(TopicsWithName(phase, topic_name))] =
            PyDict((K_is_completed :> PyBool(is_completed)) @@ @.v)])])

PhasesWithTask(phases, phase_title, topic_name) ==
    {i \in 1..Len(phases) : PhaseHasTask(phases[i], phase_title, topic_name)}

\* update_roadmap_task_status: found tells whether a document was updated,
\* collection is the collection afterwards
TaskUpdate(collection, id, phases, phase_title, topic_name, is_completed) ==
    IF \E i \in 1..Len(phases) : phases[i].t # "dict" THEN [raised |-> TRUE, found |-> FALSE, collection |-> collection]
    ELSE IF PhasesWithTask(phases, phase_title, topic_name) = {}
    THEN [raised |-> FALSE, found |-> FALSE, collection |-> collection]
    ELSE [raised |-> FALSE, found |-> TRUE,
          collection |-> [collection EXCEPT ![id] = PyDict([@.v EXCEPT ![K_detailed_roadmap] =
              PyList([@.v EXCEPT ![Least(PhasesWithTask(phases, phase_title, topic_name))] =
                  CompletedIn(@, topic_name, is_completed)])])]]

\* docs = roadmaps_collection.limit(1).stream(); next(docs, None)
TheOnlyRoadmapDoc(collection) == Least(DOMAIN collection)

update_roadmap_task_status(collection, phase_title, topic_name, is_completed) ==
    IF DOMAIN collection = {} THEN [raised |-> FALSE, found |-> FALSE, collection |-> collection]
    ELSE IF K_detailed_roadmap \notin DOMAIN collection[TheOnlyRoadmapDoc(collection)].v
    THEN [raised |-> FALSE, found |-> FALSE, collection |-> collection]
    ELSE IF collection[TheOnlyRoadmapDoc(collection)].v[K_detailed_roadmap].t # "list"
    THEN [raised |-> TRUE, found |-> FALSE, collection |-> collection]
    ELSE TaskUpdate(collection, TheOnlyRoadmapDoc(collection),
                    collection[TheOnlyRoadmapDoc(collection)].v[K_detailed_roadmap].v,
                    phase_title, topic_name, is_completed)

\* what a handler ends with: a returned body, a raised HTTPException, or
\* another exception
Respond(body) == [raised |-> "no", status |-> 200, body |-> body]
HTTPException(status_code) == [raised |-> "HTTPException", status |-> status_code, body |-> None]
OtherException == [raised |-> "Exception", status |-> 0, body |-> None]

\* variant: the handler swallows the exception, "except Exception: return None"
ExceptAsServerError_return_none(ended) ==
    IF ended.raised # "no" THEN Respond(None) ELSE ended

\* try: ... except Exception as e: raise HTTPException(status_code=500, ...)
\* HTTPException is a subclass of Exception
ExceptAsServerError(ended) ==
    IF ended.raised # "no" THEN HTTPException(500) ELSE ended

\* response_model=SummaryResponse: the returned body is validated
IsListOfStr(x) == x.t = "list" /\ \A i \in 1..Len(x.v) : x.v[i].t = "str"

SummaryResponse(body) ==
    /\ body.t = "dict"
    /\ Get(body, K_overall_score).t = "int"
    /\ IsListOfStr(Get(body, K_strengths))
    /\ IsListOfStr(Get(body, K_areas_for_improvement))
    /\ Get(body, K_overall_feedback).t = "str"

\* what the framework answers: the status of a raised HTTPException, 500
\* for any other exception, 200 with the returned body otherwise
Answer(ended) ==
    IF ended.raised = "Exception" THEN [status |-> 500, body |-> None]
    ELSE [status |-> ended.status, body |-> ended.body]

\* "if not data": the call site returned a null-like value
NotData(data) == ~Truthy(data.val)

\* what a request record holds: the endpoint, whether the generation call
\* site was called and how it ended, whether the resource asked for was found
Request(endpoint, called, outcome, found) ==
    [endpoint |-> endpoint, called |-> called, outcome |-> outcome, found |-> found]

Serving == served < MaxRequests

\* the handler ends as ended, leaving the store as it is
Handled(request, ended) ==
    /\ http_request' = request
    /\ http_response' = Answer(ended)
    /\ served' = served + 1

\* POST /chat of routers/interview.py
InterviewChatEnded(response_data) ==
    IF response_data.raised THEN OtherException
    ELSE IF NotData(response_data) \/ <<"reply">> \notin DOMAIN response_data.val.v
    THEN HTTPException(500)
    ELSE Respond(response_data.val)

conduct_interview_chat ==
    /\ Serving
    /\ \E job_description \in {"", " ", "jd"}, w \in ChatWorlds :
        IF job_description \in {"", " "}
        THEN Handled(Request("interview/chat", FALSE, Return(None), TRUE), HTTPException(400))
        ELSE Handled(Request("interview/chat", TRUE, InterviewReply(w), TRUE),
                     InterviewChatEnded(InterviewReply(w)))
    /\ UNCHANGED storeVars
    /\ UNCHANGED besideHttp

\* the result of a call site that makes one generate_content call
CallSite(w, body) == TryExcept(generate_content(api_key, "main", w), w, body)

\* POST /summarize of routers/interview.py
SummarizeEnded(summary_data) ==
    IF summary_data.raised THEN OtherException
    ELSE IF NotData(summary_data) THEN HTTPException(500)
    ELSE IF ~SummaryResponse(summary_data.val) THEN OtherException
    ELSE Respond(summary_data.val)

summarize_interview ==
    /\ Serving
    /\ \E chat_history \in SeqsUpTo([role : {"user"}, content : {"hi"}], 1), w \in HttpWorlds :
        IF chat_history = <<>>
        THEN Handled(Request("interview/summarize", FALSE, Return(None), TRUE), HTTPException(400))
        ELSE Handled(Request("interview/summarize", TRUE, CallSite(w, DataOrNone(w.text)), TRUE),
                     SummarizeEnded(CallSite(w, DataOrNone(w.text))))
    /\ UNCHANGED storeVars
    /\ UNCHANGED besideHttp

\* POST /generate of routers/roadmap.py: the roadmap is generated, given
\* progress fields, saved in place of the earlier ones and counted
GenerateEnded(roadmap_output_raw, roadmap_output, fault) ==
    IF roadmap_output_raw.raised THEN OtherException
    ELSE IF NotData(roadmap_output_raw) THEN HTTPException(500)
    ELSE IF roadmap_output.raised THEN OtherException
    ELSE IF fault # "none" THEN OtherException
    ELSE IF roadmap_output.val.t # "dict" THEN OtherException
    ELSE Respond(roadmap_output.val)

\* save_user_roadmap is reached
Saving(roadmap_output_raw, roadmap_output) ==
    /\ ~roadmap_output_raw.raised
    /\ ~NotData(roadmap_output_raw)
    /\ ~roadmap_output.raised

\* the store request of the handler that raises, if one does:
\* roadmaps_collection.stream(), roadmaps_collection.add() or the write of
\* increment_user_stat; save_user_roadmap and increment_user_stat re-raise
StoreFaults == {"none", "stream", "add", "increment"}

\* variant: record_roadmap_generation runs before save_user_roadmap
GenerateStored_counts_first(roadmap_output_raw, roadmap_output, fault) ==
    IF ~Saving(roadmap_output_raw, roadmap_output)
    THEN UNCHANGED <<roadmaps, added, user_doc>>
    ELSE IF fault = "stream"
    THEN /\ user_doc' = StatWrite(user_doc, user_doc, "roadmaps_generated", 1)
         /\ UNCHANGED <<roadmaps, added>>
    ELSE IF roadmap_output.val.t # "dict" \/ fault = "add"
    THEN /\ roadmaps' = Deleted(roadmaps, DOMAIN roadmaps)
         /\ user_doc' = StatWrite(user_doc, user_doc, "roadmaps_generated", 1)
         /\ UNCHANGED added
    ELSE /\ roadmaps' = Added(Deleted(roadmaps, DOMAIN roadmaps), added + 1, roadmap_output.val)
         /\ added' = added + 1
         /\ user_doc' = IF fault = "increment" THEN user_doc
                        ELSE StatWrite(user_doc, user_doc, "roadmaps_generated", 1)

\* await db.save_user_roadmap(uid, roadmap_output); db.record_roadmap_generation(uid)
\* ({'createdAt': ..., **new_roadmap_data} raises for a value that is no
\* mapping, after the earlier documents were deleted)
GenerateStored(roadmap_output_raw, roadmap_output, fault) ==
    IF ~Saving(roadmap_output_raw, roadmap_output) \/ fault = "stream"
    THEN UNCHANGED <<roadmaps, added, user_doc>>
    ELSE IF roadmap_output.val.t # "dict" \/ fault = "add"
    THEN /\ roadmaps' = Deleted(roadmaps, DOMAIN roadmaps)
         /\ UNCHANGED <<added, user_doc>>
    ELSE /\ roadmaps' = Added(Deleted(roadmaps, DOMAIN roadmaps), added + 1, roadmap_output.val)
         /\ added' = added + 1
         /\ user_doc' = IF fault = "increment" THEN user_doc
                        ELSE StatWrite(user_doc, user_doc, "roadmaps_generated", 1)

GenerateWith(roadmap_output_raw, roadmap_output, fault) ==
    /\ Handled(Request("roadmap/generate", TRUE, roadmap_output_raw, TRUE),
               ExceptAsServerError(GenerateEnded(roadmap_output_raw, roadmap_output, fault)))
    /\ GenerateStored(roadmap_output_raw, roadmap_output, fault)

InitializedOrRaise(roadmap_output_raw) ==
    IF roadmap_output_raw.raised \/ NotData(roadmap_output_raw) THEN Raise
    ELSE initialize_roadmap_progress(roadmap_output_raw.val)

generate_roadmap_endpoint ==
    /\ Serving
    /\ \E w \in HttpWorlds, fault \in StoreFaults :
        GenerateWith(CallSite(w, ReplacedAndLoaded(w.text)),
                     InitializedOrRaise(CallSite(w, ReplacedAndLoaded(w.text))), fault)
    /\ UNCHANGED <<initial_doc, db_ops>>
    /\ UNCHANGED besideHttp

\* GET /latest of routers/roadmap.py
LatestEnded(roadmap) ==
    IF NotData(roadmap) THEN HTTPException(404)
    ELSE IF initialize_roadmap_progress(roadmap.val).raised THEN OtherException
    ELSE Respond(initialize_roadmap_progress(roadmap.val).val)

\* get_user_roadmap: the_only_roadmap_doc.to_dict(), None without a document
get_user_roadmap(collection) ==
    IF DOMAIN collection = {} THEN Return(None)
    ELSE Return(collection[TheOnlyRoadmapDoc(collection)])

get_latest_roadmap_endpoint ==
    /\ Serving
    /\ Handled(Request("roadmap/latest", FALSE, Return(None), DOMAIN roadmaps # {}),
               ExceptAsServerError(LatestEnded(get_user_roadmap(roadmaps))))
    /\ UNCHANGED storeVars
    /\ UNCHANGED besideHttp

\* POST /update_task_status of routers/roadmap.py
UpdateEnded(updated) ==
    IF updated.raised THEN OtherException
    ELSE IF ~updated.found THEN HTTPException(404)
    ELSE Respond(PyDict(<<"message">> :> PyStr(<<"Task status updated successfully.">>)))

UpdateWith(updated) ==
    /\ Handled(Request("roadmap/update_task_status", FALSE, Return(None), updated.found),
               ExceptAsServerError(UpdateEnded(updated)))
    /\ roadmaps' = updated.collection

update_roadmap_task_status_endpoint ==
    /\ Serving
    /\ \E topic_name \in {<<"T">>, <<"U">>}, is_completed \in BOOLEAN :
        UpdateWith(update_roadmap_task_status(roadmaps, <<"P">>, topic_name, is_completed))
    /\ UNCHANGED <<added, user_doc, initial_doc, db_ops>>
    /\ UNCHANGED besideHttp

\* POST /tutor of routers/roadmap.py
TutorEnded(tutor_response) ==
    IF tutor_response.raised THEN OtherException
    ELSE IF NotData(tutor_response) THEN HTTPException(500)
    ELSE Respond(tutor_response.val)

get_tutor_response_endpoint ==
    /\ Serving
    /\ \E w \in HttpWorlds :
        Handled(Request("roadmap/tutor", TRUE, CallSite(w, ReplacedAndLoaded(w.text)), TRUE),
                ExceptAsServerError(TutorEnded(CallSite(w, ReplacedAndLoaded(w.text)))))
    /\ UNCHANGED storeVars
    /\ UNCHANGED besideHttp

\* POST /chat of routers/roadmap.py
ChatbotEnded(chatbot_response) ==
    IF chatbot_response.raised THEN OtherException
    ELSE IF NotData(chatbot_response) THEN HTTPException(500)
    ELSE Respond(chatbot_response.val)

get_chatbot_response_endpoint ==
    /\ Serving
    /\ \E w \in ChatWorlds :
        Handled(Request("roadmap/chat", TRUE, ChatbotReply(w), TRUE),
                ExceptAsServerError(ChatbotEnded(ChatbotReply(w))))
    /\ UNCHANGED storeVars
    /\ UNCHANGED besideHttp

\* the server is up with its key configured
ProcServing ==
    /\ env = [legacy |-> "set", numbered |-> {}]
    /\ pc = "serving"
    /\ api_key = GOOGLE_API_KEY
    /\ calls = 0
    /\ site = "none"
    /\ world = NoWorld
    /\ attempts = <<>>
    /\ result = Return(None)
    /\ failed_before = {}

HttpInit ==
    /\ http_request = NoRequest
    /\ http_response = NoResponse
    /\ served = 0
    /\ roadmaps \in {<<>>, 1 :> initialize_roadmap_progress(PlanDict).val, 1 :> SampleDict}
    /\ added = Cardinality(DOMAIN roadmaps)
    /\ user_doc \in {MissingDoc, UserDoc(StatsMap(ZeroStats))}
    /\ initial_doc = user_doc
    /\ db_ops = <<>>

InitHttp == HttpInit /\ ProcServing /\ NormIdle /\ ChatIdle /\ OptIdle /\ ConcIdle /\ ResumeIdle

NextHttp ==
    \/ conduct_interview_chat
    \/ summarize_interview
    \/ generate_roadmap_endpoint
    \/ get_latest_roadmap_endpoint
    \/ update_roadmap_task_status_endpoint
    \/ get_tutor_response_endpoint
    \/ get_chatbot_response_endpoint

SpecHttp == InitHttp /\ [][NextHttp]_vars

\* the generation call site of the latest request ended in total failure
TotalFailure ==
    /\ http_request.endpoint # "none"
    /\ http_request.called
    /\ (http_request.outcome.raised \/ ~Truthy(http_request.outcome.val))

\* C14: a handler whose generation call site returned a null-like value or
\* raised answers with status 500.
C14_FailureIsServerError == TotalFailure => http_response.status = 500

\* the interview chat call site returned None and the handler answered 500
C14_Witness ==
    /\ TotalFailure
    /\ http_request.endpoint = "interview/chat"
    /\ http_request.outcome = Return(None)
    /\ http_response.status = 500

\* a second case: the chatbot call site raised and the handler answered 500
C14_WitnessRaised ==
    /\ TotalFailure
    /\ http_request.endpoint = "roadmap/chat"
    /\ http_request.outcome.raised
    /\ http_response.status = 500

\* C20: GET /latest without a roadmap document, and POST /update_task_status
\* for a task that is not found, answer with status 404.
C20_MissingIs404 ==
    (http_request.endpoint \in {"roadmap/latest", "roadmap/update_task_status"}
        /\ ~http_request.found)
            => http_response.status = 404

\* a step of POST /generate
GenerateStep == served' = served + 1 /\ http_request'.endpoint = "roadmap/generate"

\* generate_career_roadmap failed: the handler got None (or another falsy value)
GenerationFailedStep == http_request'.outcome.raised \/ NotData(http_request'.outcome)

\* the step left a new roadmap document in the collection
RoadmapSavedStep ==
    /\ added' = added + 1
    /\ DOMAIN roadmaps' = {added'}
    /\ roadmaps'[added'] = initialize_roadmap_progress(http_request'.outcome.val).val

\* C27: POST /generate leaves the store as it was when generate_career_roadmap
\* failed, and changes the user's statistics only in a request that also
\* saved the new roadmap: then roadmaps_generated is one more than before.
C27_SavedBeforeCounted ==
    [][GenerateStep =>
        /\ GenerationFailedStep => UNCHANGED <<roadmaps, added, user_doc>>
        /\ (user_doc' # user_doc) =>
            /\ RoadmapSavedStep
            /\ StatOf(user_doc', "roadmaps_generated") = StatOf(user_doc, "roadmaps_generated") + 1
            /\ http_response'.status = 200]_vars

\* a roadmap was generated, saved and counted
C27_Witness ==
    /\ http_request.endpoint = "roadmap/generate"
    /\ http_response.status = 200
    /\ DOMAIN roadmaps = {added}
    /\ StatOf(user_doc, "roadmaps_generated") = StatOf(initial_doc, "roadmaps_generated") + 1

\* a roadmap was generated but a store request raised: nothing was counted
C27_WitnessSaveFailed ==
    /\ http_request.endpoint = "roadmap/generate"
    /\ ~http_request.outcome.raised
    /\ http_request.outcome.val.t = "dict"
    /\ ~NotData(http_request.outcome)
    /\ http_response.status = 500
    /\ served = 1
    /\ user_doc = initial_doc

(***************************************************************************)
(* optimize_resume_json                                                    *)
(***************************************************************************)
\* bool(s and s.strip())
_norm(s) == PyBool(strip(s) # <<>>)

\* val = (inp or "").strip(); the pair (section, instruction)
SplitAtColon(val, k) == <<_norm(SubStr(val, 1, k - 1)), _norm(SubStr(val, k + 1, Len(val)))>>

ParseStripped(val) ==
    IF val = <<>> THEN <<None, None>>
    ELSE IF find(val, <<":">>, 1) # 0 THEN SplitAtColon(val, find(val, <<":">>, 1))
    ELSE IF WordCount(val) = 1 THEN <<PyStr(val), None>>
    ELSE <<None, PyStr(val)>>

parse_user_optimization_input(inp) == ParseStripped(strip(inp))

LowerCase ==
    ("A" :> "a") @@ ("B" :> "b") @@ ("C" :> "c") @@ ("D" :> "d") @@ ("E" :> "e") @@ ("F" :> "f")
    @@ ("G" :> "g") @@ ("H" :> "h") @@ ("I" :> "i") @@ ("J" :> "j") @@ ("K" :> "k") @@ ("L" :> "l")
    @@ ("M" :> "m") @@ ("N" :> "n") @@ ("O" :> "o") @@ ("P" :> "p") @@ ("Q" :> "q") @@ ("R" :> "r")
    @@ ("S" :> "s") @@ ("T" :> "t") @@ ("U" :> "u") @@ ("V" :> "v") @@ ("W" :> "w") @@ ("X" :> "x")
    @@ ("Y" :> "y") @@ ("Z" :> "z")

\* str.lower()
lower(s) == [i \in 1..Len(s) |-> IF s[i] \in DOMAIN LowerCase THEN LowerCase[s[i]] ELSE s[i]]

\* str.replace(old, new) for single characters
replace_char(s, old, new) == [i \in 1..Len(s) |-> IF s[i] = old THEN new ELSE s[i]]

\* "p in s" for texts
contains(s, p) == find(s, p, 1) # 0

\* t == k_norm or t in k_norm or k_norm in t
KeyMatches(t, k_norm) == t = k_norm \/ contains(k_norm, t) \/ contains(t, k_norm)

\* target_key.strip().lower().replace(" ", "_").replace("-", "_")
TargetNorm(target_key) == replace_char(replace_char(lower(strip(target_key)), " ", "_"), "-", "_")

\* k.lower().replace(" ", "_")
KeyNorm(k) == replace_char(lower(k), " ", "_")

MatchingKeys(t, available_keys) ==
    {i \in 1..Len(available_keys) : KeyMatches(t, KeyNorm(available_keys[i]))}

\* for k in available_keys: if ...: return k
\* return None
FirstMatch(t, available_keys) ==
    IF MatchingKeys(t, available_keys) = {} THEN Return(None)
    ELSE Return(PyStr(available_keys[Least(MatchingKeys(t, available_keys))]))

\* if not target_key: return None; a target without strip() raises AttributeError
_best_section_key(target_key, available_keys) ==
    IF ~Truthy(target_key) THEN Return(None)
    ELSE IF target_key.t # "str" THEN Raise
    ELSE FirstMatch(TargetNorm(target_key.v), available_keys)

K_skills == <<"s", "k", "i", "l", "l", "s">>
K_summary == <<"s", "u", "m", "m", "a", "r", "y">>
K_personal_info == <<"p", "e", "r", "s", "o", "n", "a", "l", "_", "i", "n", "f", "o">>

\* a resume with a list, a text and a dict section, and the order of its keys
SampleResume ==
    PyDict((K_skills :> PyList(<<PyStr(<<"x">>)>>)) @@ (K_summary :> PyStr(<<"o", "l", "d">>))
           @@ (K_personal_info :> PyDict(<<"n">> :> PyStr(<<"A">>))))

Resumes ==
    {[json |-> SampleResume, keys |-> <<K_skills, K_summary, K_personal_info>>],
     [json |-> PyDict(K_summary :> PyStr(<<"o", "l", "d">>)), keys |-> <<K_summary>>]}

UserInputs ==
    {<<>>, K_skills, <<"S", "k", "i", "l", "l", "s", " ">>, <<"n", "o", "s", "u", "c", "h">>,
     <<"n", "o", "s", "u", "c", "h", ":", " ", "c", "u", "t">>, K_skills \o <<":", " ", "c", "u", "t">>,
     <<":", " ", "c", "u", "t">>, <<"c", "u", "t", " ", "i", "t">>}

\* response.text of the optimization request
OptimizedTexts ==
    {json_dumps(PyDict(K_summary :> PyStr(<<"n", "e", "w">>)), "default"),
     json_dumps(PyDict((K_personal_info :> PyDict(<<"m">> :> PyInt(1))) @@ (<<"a">> :> PyInt(1))), "default"),
     json_dumps(PyList(<<PyStr(<<"y">>)>>), "default"),
     json_dumps(EmptyDict, "default"),
     <<"n", "o">>}

OptWorlds ==
    [fails : SUBSET {GOOGLE_API_KEY}, kind : {"ResourceExhausted", "ValueError"},
     text : OptimizedTexts, jd : {FALSE}, roleFails : {FALSE}, roleText : {<<"Q", "A">>}]

\* resume_json[key].update(value) when both are dicts, resume_json[key] = value otherwise
MergedValue(resume, key, value) ==
    IF key \in DOMAIN resume.v /\ resume.v[key].t = "dict" /\ value.t = "dict"
    THEN PyDict(value.v @@ resume.v[key].v)
    ELSE value

\* for key, value in optimized_data.items(): ...
Merged(resume, optimized_data) ==
    PyDict([key \in (DOMAIN resume.v) \cup (DOMAIN optimized_data.v) |->
        IF key \in DOMAIN optimized_data.v THEN MergedValue(resume, key, optimized_data.v[key])
        ELSE resume.v[key]])

\* if not optimized_data: return resume_json
\* if section_req and optimized_data: resume_json[mapped] = optimized_data
\* elif optimized_data: for key, value in optimized_data.items(): ...
\* (items() of a value that is no dict raises, which the handler catches)
Assigned(resume, section_req, mapped, optimized_data) ==
    IF ~Truthy(optimized_data) THEN resume
    ELSE IF Truthy(section_req) THEN PyDict([resume.v EXCEPT ![mapped.v] = optimized_data])
    ELSE IF optimized_data.t # "dict" THEN resume
    ELSE Merged(resume, optimized_data)

\* try: response = model.generate_content(...); ... except Exception: print(...)
Generated(resume, section_req, mapped, a, w) ==
    IF ~a.ok THEN (IF ExceptException(w.kind) THEN Return(resume) ELSE Raise)
    ELSE Return(Assigned(resume, section_req, mapped, _safe_json_loads(PyStr(w.text), None).val))

\* mapped = _best_section_key(section_req, keys_present)
\* if not mapped: return resume_json
WithSection(resume, section_req, mapped, w) ==
    IF mapped.raised THEN [called |-> FALSE, returned |-> Raise]
    ELSE IF ~Truthy(mapped.val) THEN [called |-> FALSE, returned |-> Return(resume)]
    ELSE [called |-> TRUE,
          returned |-> Generated(resume, section_req, mapped.val,
                                 generate_content(api_key, "main", w), w)]

\* if section_req: ... else: the whole resume is optimized
Optimized(resume, keys_present, section_req, w) ==
    IF Truthy(section_req)
    THEN WithSection(resume, section_req, _best_section_key(section_req, keys_present), w)
    ELSE [called |-> TRUE,
          returned |-> Generated(resume, section_req, None,
                                 generate_content(api_key, "main", w), w)]

\* the call ends: resume_json is the caller's mapping, changed in place
Optimize(w, parsed_input, done) ==
    /\ opt_request' = [opt_request EXCEPT !.pc = "returned", !.world = w, !.called = done.called,
                                          !.parsed = parsed_input]
    /\ opt_result' = done.returned
    /\ resume_json' = IF done.returned.raised THEN resume_json ELSE done.returned.val
    /\ UNCHANGED resume_before

optimize_resume_json ==
    /\ opt_request.pc = "called"
    /\ \E w \in OptWorlds :
        Optimize(w, parse_user_optimization_input(opt_request.user_input),
                 Optimized(resume_json, opt_request.keys_present,
                           parse_user_optimization_input(opt_request.user_input)[1], w))
    /\ UNCHANGED besideOpt

OptInit ==
    /\ \E r \in Resumes, i \in UserInputs :
        /\ resume_json = r.json
        /\ opt_request = [pc |-> "called", user_input |-> i, keys_present |-> r.keys,
                          world |-> NoWorld, called |-> FALSE, parsed |-> <<None, None>>]
    /\ resume_before = resume_json
    /\ opt_result = Return(None)

InitOpt == OptInit /\ ProcServing /\ NormIdle /\ ChatIdle /\ StoreIdle /\ HttpIdle /\ ConcIdle /\ ResumeIdle

NextOpt == optimize_resume_json

SpecOpt == InitOpt /\ [][NextOpt]_vars

\* the section the user asked for: the text before a colon, or the whole of
\* a one-word input; empty when none is asked for
RequestedSection(inp) ==
    IF find(strip(inp), <<":">>, 1) # 0 THEN strip(SubStr(strip(inp), 1, find(strip(inp), <<":">>, 1) - 1))
    ELSE IF WordCount(strip(inp)) = 1 THEN strip(inp)
    ELSE <<>>

SectionNotFound ==
    /\ RequestedSection(opt_request.user_input) # <<>>
    /\ MatchingKeys(TargetNorm(RequestedSection(opt_request.user_input)), opt_request.keys_present) = {}

GenerationFailed == opt_request.called /\ GOOGLE_API_KEY \in opt_request.world.fails

NotNormalized ==
    /\ opt_request.called
    /\ GOOGLE_API_KEY \notin opt_request.world.fails
    /\ _safe_json_loads(PyStr(opt_request.world.text), None) = Return(None)

\* C15: when the generation call failed, its output could not be
\* normalized, or the requested section is not found, optimize_resume_json
\* returns the resume with every key and value as before the call.
C15_FailureLeavesInputUnchanged ==
    (opt_request.pc = "returned" /\ (GenerationFailed \/ NotNormalized \/ SectionNotFound))
        => /\ ~opt_result.raised
           /\ opt_result.val = resume_before
           /\ resume_json = resume_before

\* the text before the first colon of the trimmed input and the text after it
LeftOfColon(val) == SubStr(val, 1, find(val, <<":">>, 1) - 1)

RightOfColon(val) == SubStr(val, find(val, <<":">>, 1) + 1, Len(val))

\* what the annotation Tuple[Optional[str], Optional[str]] and the docstring
\* "(section, instruction) tuple" promise for the trimmed input val
SectionAndInstruction(val) ==
    IF val = <<>> THEN <<None, None>>
    ELSE IF find(val, <<":">>, 1) # 0
    THEN <<PyStr(strip(LeftOfColon(val))), PyStr(strip(RightOfColon(val)))>>
    ELSE IF WordCount(val) = 1 THEN <<PyStr(val), None>>
    ELSE <<None, PyStr(val)>>

TextOrNone(x) == x.t \in {"str", "null"}

\* C22: parse_user_optimization_input gives a (section, instruction) pair
\* whose components are text or None: (None, None) for an empty input,
\* (word, None) for one word, (None, input) for several words without a
\* colon, and the trimmed section and the trimmed instruction for
\* "section: instruction".
C22_ParsedIsSectionAndInstruction ==
    opt_request.pc = "returned"
        => /\ TextOrNone(opt_request.parsed[1])
           /\ TextOrNone(opt_request.parsed[2])
           /\ opt_request.parsed = SectionAndInstruction(strip(opt_request.user_input))

\* the three forms without a colon are parsed as documented
C22_NoColonForms ==
    (opt_request.pc = "returned" /\ find(opt_request.user_input, <<":">>, 1) = 0)
        => opt_request.parsed = SectionAndInstruction(strip(opt_request.user_input))

(***************************************************************************)
(* Call sites running at the same time in one server process: each works   *)
(* on its own arguments and locals and reads the key genai was configured  *)
(* with                                                                    *)
(***************************************************************************)
\* number of invocations that run at the same time
MaxInflight == 2

Invocations == 1..MaxInflight

ConcSites == {"get_resume_structure", "get_chatbot_response", "generate_full_resume_analysis"}

ConcWorlds ==
    [fails : SUBSET {GOOGLE_API_KEY}, kind : {"ResourceExhausted"},
     text : {json_dumps(SampleDict, "default"), <<"n", "o">>},
     jd : {FALSE}, roleFails : {FALSE}, roleText : {<<"Q", "A">>}]
    \cup [fails : SUBSET {GOOGLE_API_KEY}, kind : {"ResourceExhausted"},
          text : {json_dumps(SampleDict, "default")},
          jd : {TRUE}, roleFails : BOOLEAN, roleText : {<<"Q", "A">>}]

\* the requests a call of the site makes, in order
RequestsOf(name, w) ==
    IF name = "generate_full_resume_analysis" /\ w.jd THEN <<"role", "main">> ELSE <<"main">>

\* get_chatbot_response: the reply, the apology for an empty text, or the
\* exception raised again
ChatbotResult(a, w) ==
    IF ~a.ok THEN Raise
    ELSE IF w.text = <<>> THEN Return(PyDict(<<"response">> :> PyStr(Apology)))
    ELSE Return(PyDict(<<"response">> :> PyStr(w.text)))

\* what the call site returns once its requests were made
SiteResult(name, w, atts) ==
    CASE name = "get_resume_structure" -> TryExcept(atts[1], w, DataOrNone(w.text))
      [] name = "get_chatbot_response" -> ChatbotResult(atts[1], w)
      [] name = "generate_full_resume_analysis" ->
            TryExcept(atts[Len(atts)], w,
                      Dated(DataOfTypeOrNone(w.text, "dict"), JobRoleHint(w, atts[1])))

Idle == [pc |-> "idle", site |-> "none", world |-> NoWorld, attempts |-> <<>>,
         result |-> Return(None)]

\* a call site is entered with its arguments
conc_call(r) ==
    /\ pc = "serving"
    /\ inflight[r].pc = "idle"
    /\ \E name \in ConcSites, w \in ConcWorlds :
        /\ (w.jd => name = "generate_full_resume_analysis")
        /\ inflight' = [inflight EXCEPT ![r] = [Idle EXCEPT !.pc = "running", !.site = name, !.world = w]]
    /\ UNCHANGED procVars
    /\ UNCHANGED besideConc

\* variant: no key is used once an attempt of another invocation has failed
KeyFor_skips_failed(r) ==
    IF \E q \in Invocations \ {r} : \E i \in 1..Len(inflight[q].attempts) : ~inflight[q].attempts[i].ok
    THEN NoKey ELSE api_key

\* the key a request of invocation r is made with: the one genai.configure was given
KeyFor(r) == api_key

\* variant: the key of a failed attempt is taken out of the client
conc_attempt_drops_failed(r) ==
    /\ inflight[r].pc = "running"
    /\ Len(inflight[r].attempts) < Len(RequestsOf(inflight[r].site, inflight[r].world))
    /\ inflight' = [inflight EXCEPT ![r].attempts =
            Append(@, generate_content(api_key,
                RequestsOf(inflight[r].site, inflight[r].world)[Len(@) + 1], inflight[r].world))]
    /\ api_key' = IF generate_content(api_key, "main", inflight[r].world).ok THEN api_key ELSE NoKey
    /\ UNCHANGED <<env, pc, calls, site, world, attempts, result, failed_before>>
    /\ UNCHANGED besideConc

\* model.generate_content(...) or chat_session.send_message(...): the next
\* request of the call, made with the configured key
conc_attempt(r) ==
    /\ inflight[r].pc = "running"
    /\ Len(inflight[r].attempts) < Len(RequestsOf(inflight[r].site, inflight[r].world))
    /\ inflight' = [inflight EXCEPT ![r].attempts =
            Append(@, generate_content(KeyFor(r),
                RequestsOf(inflight[r].site, inflight[r].world)[Len(@) + 1], inflight[r].world))]
    /\ UNCHANGED procVars
    /\ UNCHANGED besideConc

\* the call returns or raises
conc_return(r) ==
    /\ inflight[r].pc = "running"
    /\ Len(inflight[r].attempts) = Len(RequestsOf(inflight[r].site, inflight[r].world))
    /\ inflight' = [inflight EXCEPT ![r].pc = "done",
            ![r].result = SiteResult(inflight[r].site, inflight[r].world, inflight[r].attempts)]
    /\ UNCHANGED procVars
    /\ UNCHANGED besideConc

ConcInit == inflight = [r \in Invocations |-> Idle]

InitConc == ConcInit /\ ProcServing /\ NormIdle /\ ChatIdle /\ StoreIdle /\ HttpIdle /\ OptIdle /\ ResumeIdle

NextConc ==
    \E r \in Invocations :
        \/ conc_call(r)
        \/ conc_attempt(r)
        \/ conc_return(r)

SpecConc == InitConc /\ [][NextConc]_vars

\* the attempts a call makes when it runs alone with the configured pool
AloneAttempts(name, w) ==
    [i \in 1..Len(RequestsOf(name, w)) |-> generate_content(GOOGLE_API_KEY, RequestsOf(name, w)[i], w)]

\* C16: whatever runs at the same time, a finished invocation has made the
\* attempts, and got the outcome, of a run alone; an unfinished one has made
\* a prefix of them; and the configured credential is never changed.
C16_PoolSharedReadOnly ==
    /\ api_key = GOOGLE_API_KEY
    /\ \A r \in Invocations :
        /\ inflight[r].pc # "idle" =>
              inflight[r].attempts =
                  SubSeq(AloneAttempts(inflight[r].site, inflight[r].world), 1, Len(inflight[r].attempts))
        /\ inflight[r].pc = "done" =>
              /\ inflight[r].attempts = AloneAttempts(inflight[r].site, inflight[r].world)
              /\ inflight[r].result = SiteResult(inflight[r].site, inflight[r].world,
                                                 AloneAttempts(inflight[r].site, inflight[r].world))

\* two invocations have finished, one after a failed attempt and one after
\* a successful attempt with the same credential
C16_Witness ==
    /\ inflight[1].pc = "done"
    /\ inflight[2].pc = "done"
    /\ ~inflight[1].attempts[1].ok
    /\ inflight[2].attempts[1].ok
    /\ inflight[2].attempts[1].cred = inflight[1].attempts[1].cred

TwoTopicPlan ==
    PyDict(K_detailed_roadmap :> PyList(<<
        PyDict((K_phase_title :> PyStr(<<"P">>))
               @@ (K_topics :> PyList(<<PyStr(<<"T">>), PyStr(<<"U">>)>>)))>>))

TaskTopics == {<<"T">>, <<"U">>, <<"X">>}

\* a call of update_roadmap_task_status that has not started
TaskOp(topic_name, is_completed) ==
    [op |-> "update_roadmap_task_status", pc |-> "start", phase_title |-> <<"P">>,
     topic_name |-> topic_name, is_completed |-> is_completed,
     seen |-> <<>>, returned |-> "none"]

\* docs = roadmaps_collection.limit(1).stream(); the_only_roadmap_doc = next(docs, None)
\* if not the_only_roadmap_doc: return False
task_read(s) ==
    /\ db_ops[s].pc = "start"
    /\ db_ops' = [db_ops EXCEPT ![s] =
            IF DOMAIN roadmaps = {} THEN [@ EXCEPT !.pc = "done", !.returned = "False"]
            ELSE [@ EXCEPT !.pc = "read",
                           !.seen = TheOnlyRoadmapDoc(roadmaps) :> roadmaps[TheOnlyRoadmapDoc(roadmaps)]]]
    /\ UNCHANGED <<roadmaps, added, user_doc, initial_doc>>
    /\ UNCHANGED besideStore

\* the field 'detailed_roadmap' of the document afterwards
Field(doc, key) == doc.v[key]

\* variant: doc_ref.update() changes the one topic in the stored document
TaskWritten_in_place(seen, collection, done, o) ==
    update_roadmap_task_status(collection, o.phase_title, o.topic_name, o.is_completed).collection

\* doc_ref.update({'detailed_roadmap': updated_detailed_roadmap}): the field
\* of the stored document is replaced by the list read earlier, with the
\* one topic changed
TaskWritten(seen, collection, done, o) ==
    [collection EXCEPT ![TheOnlyRoadmapDoc(seen)] =
        PyDict((K_detailed_roadmap :> Field(done.collection[TheOnlyRoadmapDoc(seen)], K_detailed_roadmap))
               @@ @.v)]

TaskEnds(s, done) ==
    IF done.raised
    THEN /\ db_ops' = [db_ops EXCEPT ![s].pc = "done", ![s].returned = "raised"]
         /\ UNCHANGED roadmaps
    ELSE IF ~done.found
    THEN /\ db_ops' = [db_ops EXCEPT ![s].pc = "done", ![s].returned = "False"]
         /\ UNCHANGED roadmaps
    ELSE /\ db_ops' = [db_ops EXCEPT ![s].pc = "done", ![s].returned = "True"]
         /\ roadmaps' = TaskWritten(db_ops[s].seen, roadmaps, done, db_ops[s])

\* the loop over roadmap_content['detailed_roadmap'] and the update
task_write(s) ==
    /\ db_ops[s].pc = "read"
    /\ TaskEnds(s, update_roadmap_task_status(db_ops[s].seen, db_ops[s].phase_title,
                                              db_ops[s].topic_name, db_ops[s].is_completed))
    /\ UNCHANGED <<added, user_doc, initial_doc>>
    /\ UNCHANGED besideStore

TasksInit ==
    /\ roadmaps \in {<<>>, 1 :> initialize_roadmap_progress(TwoTopicPlan).val}
    /\ added = Cardinality(DOMAIN roadmaps)
    /\ user_doc = MissingDoc
    /\ initial_doc = user_doc
    /\ db_ops \in [Servers -> {TaskOp(t, c) : t \in TaskTopics, c \in BOOLEAN}]

InitTasks == TasksInit /\ ProcServing /\ NormIdle /\ ChatIdle /\ HttpIdle /\ OptIdle /\ ConcIdle /\ ResumeIdle

NextTasks == \E s \in Servers : task_read(s) \/ task_write(s)

SpecTasks == InitTasks /\ [][NextTasks]_vars

\* the stored is_completed of the topic of that name in the phase "P"
StoredCompleted(collection, topic_name) ==
    Get(Get(Get(collection[TheOnlyRoadmapDoc(collection)], K_detailed_roadmap).v[1], K_topics).v[
            Least(TopicsWithName(Get(collection[TheOnlyRoadmapDoc(collection)], K_detailed_roadmap).v[1],
                                 topic_name))],
        K_is_completed)

Reflected(s) == StoredCompleted(roadmaps, db_ops[s].topic_name) = PyBool(db_ops[s].is_completed)

\* C23: when two update_roadmap_task_status calls for different topics of one
\* user's roadmap have both returned True, the stored roadmap holds the
\* is_completed value each of them asked for.
C23_NoLostTaskUpdate ==
    \A s, t \in Servers :
        (/\ db_ops[s].returned = "True"
         /\ db_ops[t].returned = "True"
         /\ db_ops[s].topic_name # db_ops[t].topic_name)
            => Reflected(s) /\ Reflected(t)

\* a call that returned True while no other call had read the document
\* before it wrote left its value in the store
C23_LoneUpdateKept ==
    \A s \in Servers :
        (db_ops[s].returned = "True" /\ \A t \in Servers \ {s} : db_ops[t].pc = "start")
            => Reflected(s)

\* two calls for different topics returned True and both values are stored
C23_BothKept ==
    /\ db_ops[1].returned = "True"
    /\ db_ops[2].returned = "True"
    /\ db_ops[1].topic_name # db_ops[2].topic_name
    /\ db_ops[1].is_completed
    /\ db_ops[2].is_completed
    /\ Reflected(1)
    /\ Reflected(2)

(***************************************************************************)
(* The resume of a user in the store (core/db_core.py): the fields of the  *)
(* document users/{uid} and the documents of its sub-collections           *)
(***************************************************************************)
\* number of calls of the resume methods in one run
MaxResumeCalls == 3

K_projects == <<"p", "r", "o", "j", "e", "c", "t", "s">>
K_title == <<"t", "i", "t", "l", "e">>
K_description == <<"d", "e", "s", "c", "r", "i", "p", "t", "i", "o", "n">>
K_optimized_description == <<"o", "p", "t", "i", "m", "i", "z", "e", "d", "_", "d", "e", "s", "c", "r", "i", "p", "t", "i", "o", "n">>
K_optimized_summary == <<"o", "p", "t", "i", "m", "i", "z", "e", "d", "_", "s", "u", "m", "m", "a", "r", "y">>
K_structured_resume_data == <<"s", "t", "r", "u", "c", "t", "u", "r", "e", "d", "_", "r", "e", "s", "u", "m", "e", "_", "d", "a", "t", "a">>
K_resume == <<"r", "e", "s", "u", "m", "e">>
K_raw_text == <<"r", "a", "w", "_", "t", "e", "x", "t">>
K_resume_metadata == <<"r", "e", "s", "u", "m", "e", "_", "m", "e", "t", "a", "d", "a", "t", "a">>
K_categorized_skills == <<"c", "a", "t", "e", "g", "o", "r", "i", "z", "e", "d", "_", "s", "k", "i", "l", "l", "s">>
K_raw_resume_text == <<"r", "a", "w", "_", "r", "e", "s", "u", "m", "e", "_", "t", "e", "x", "t">>

\* "\n".join(string_parts) for parts that are texts
RECURSIVE JoinLines(_)
JoinLines(parts) ==
    IF Len(parts) = 0 THEN <<>>
    ELSE IF Len(parts) = 1 THEN parts[1].v
    ELSE parts[1].v \o <<"\n">> \o JoinLines(Tail(parts))

\* _stringify_list_content(content), for a list of texts, a text or None
_stringify_list_content(content) ==
    IF content.t = "list" THEN PyStr(JoinLines(content.v))
    ELSE IF content.t = "str" THEN content
    ELSE PyStr(<<>>)

\* str.split('\n')
RECURSIVE SplitLines(_)
SplitLines(text) ==
    IF find(text, <<"\n">>, 1) = 0 THEN <<PyStr(text)>>
    ELSE <<PyStr(SubStr(text, 1, find(text, <<"\n">>, 1) - 1))>>
         \o SplitLines(SubStr(text, find(text, <<"\n">>, 1) + 1, Len(text)))

\* desc_to_use.split('\n') if isinstance(desc_to_use, str) else desc_to_use
DescriptionLines(desc_to_use) ==
    IF desc_to_use.t = "str" THEN PyList(SplitLines(desc_to_use.v)) ELSE desc_to_use

\* {k: v for k, v in mapping.items() if k not in keys}
Without(mapping, keys) == [k \in (DOMAIN mapping) \ keys |-> mapping[k]]

\* mapping with the entry key: value put in, left out when value is None
\* (filtered_update_fields keeps the fields whose value "is not None")
WithUnlessNone(mapping, key, value) ==
    IF value = None THEN mapping ELSE (key :> value) @@ mapping

\* update() of the field path 'outer.inner': the other entries of the map
\* outer stay
WithNested(mapping, outer, inner, value) ==
    IF outer \in DOMAIN mapping /\ mapping[outer].t = "dict"
    THEN (outer :> PyDict((inner :> value) @@ mapping[outer].v)) @@ mapping
    ELSE (outer :> PyDict(inner :> value)) @@ mapping

\* dict.get(key) of a mapping kept as a function
GetField(mapping, key) == IF key \in DOMAIN mapping THEN mapping[key] ELSE None

\* item_to_save: the item with its description made one text and
\* optimized_description None
ItemToSave(item) ==
    PyDict((K_optimized_description :> None)
           @@ (IF K_description \in DOMAIN item.v
               THEN K_description :> _stringify_list_content(item.v[K_description])
               ELSE <<>>)
           @@ item.v)

IsDict(x) == x.t = "dict"

SavedItems(dicts) == [i \in 1..Len(dicts) |-> ItemToSave(dicts[i])]

\* the documents added to the sub-collection of a standard section:
\* if isinstance(section_content, list): for item in section_content:
\* if isinstance(item, dict): ...add(item_to_save)
SectionItems(section_content) ==
    IF section_content.t = "list" THEN SavedItems(SelectSeq(section_content.v, IsDict)) ELSE <<>>

\* p_info = parsed_data.get('personal_info', {})
PersonalInfoOf(parsed_data) ==
    IF K_personal_info \in DOMAIN parsed_data.v THEN parsed_data.v[K_personal_info] ELSE EmptyDict

\* an entry of update_fields with a field path: filtered_update_fields
\* keeps it only when the value is not None
WithNestedUnlessNone(mapping, outer, inner, value) ==
    IF value = None THEN mapping ELSE WithNested(mapping, outer, inner, value)

\* user_doc_ref.update(filtered_update_fields): the fields of the document
\* afterwards; 'structured_resume_data' is put in place of the earlier map,
\* and 'resume.optimized_summary': None is filtered out
UpdatedFields(fields, parsed_data, p_info) ==
    WithNestedUnlessNone(
        WithNestedUnlessNone(
            WithUnlessNone(
                (K_structured_resume_data :>
                     PyDict(Without(parsed_data.v, {K_skills, K_raw_text, K_resume_metadata})))
                @@ WithUnlessNone(WithUnlessNone(WithUnlessNone(fields,
                       K_name, Get(p_info, K_name)),
                       K_raw_resume_text, GetField(parsed_data.v, K_raw_text)),
                       K_resume_metadata, GetField(parsed_data.v, K_resume_metadata)),
                K_categorized_skills, GetField(parsed_data.v, K_skills)),
            K_resume, K_summary, GetField(parsed_data.v, K_summary)),
        K_resume, K_optimized_summary, None)

\* the store request of update_resume_relational that raises, if one does:
\* the set() of lastUpdatedAt, a stream() of a sub-collection, the update()
\* of the main document, or the first add() of an item
UpdateFaults == {"none", "set", "stream", "update", "add"}

UpdateEnds(returned, exists, fields, its) ==
    [returned |-> returned, exists |-> exists, fields |-> fields, items |-> its]

\* update_resume_relational(user_uid, parsed_data): what it returns and the
\* store afterwards (p_info.get raises when personal_info is no mapping)
Uploaded(exists, fields, its, parsed_data, fault) ==
    IF fault = "set" THEN UpdateEnds(FALSE, exists, fields, its)
    ELSE IF fault = "stream" THEN UpdateEnds(FALSE, TRUE, fields, its)
    ELSE IF PersonalInfoOf(parsed_data).t # "dict" \/ fault = "update"
    THEN UpdateEnds(FALSE, TRUE, fields, <<>>)
    ELSE IF fault = "add" /\ SectionItems(GetField(parsed_data.v, K_projects)) # <<>>
    THEN UpdateEnds(FALSE, TRUE, UpdatedFields(fields, parsed_data, PersonalInfoOf(parsed_data)), <<>>)
    ELSE UpdateEnds(TRUE, TRUE, UpdatedFields(fields, parsed_data, PersonalInfoOf(parsed_data)),
                    SectionItems(GetField(parsed_data.v, K_projects)))

\* update() of a document that does not exist raises NotFound
OptimizeEnds(raised, fields, its) == [raised |-> raised, fields |-> fields, items |-> its]

\* query.where(key, '==', item_to_match.get(key)) for the keys the item has,
\* here 'title'
MatchingDocs(its, item_to_match) ==
    {i \in 1..Len(its) :
        ~Truthy(Get(item_to_match, K_title)) \/ Get(its[i], K_title) = Get(item_to_match, K_title)}

\* item_to_match.get('description', [])
DescriptionOrEmpty(item) ==
    IF K_description \in DOMAIN item.v THEN item.v[K_description] ELSE PyList(<<>>)

\* docs = query.limit(1).stream();
\* doc.reference.update({'optimized_description': optimized_desc_str})
OneOptimized(its, item_to_match) ==
    IF MatchingDocs(its, item_to_match) = {} THEN its
    ELSE [its EXCEPT ![Least(MatchingDocs(its, item_to_match))] =
            PyDict((K_optimized_description :> _stringify_list_content(DescriptionOrEmpty(item_to_match)))
                   @@ @.v)]

\* update_item_optimized_description(collection_name, items, match_keys)
RECURSIVE update_item_optimized_description(_, _)
update_item_optimized_description(its, todo) ==
    IF todo = <<>> THEN its
    ELSE update_item_optimized_description(OneOptimized(its, Head(todo)), Tail(todo))

\* if 'summary' in optimized_data: update 'structured_resume_data.summary'
\* and 'structured_resume_data.optimized_summary'
OptimizedFields(fields, optimized_data) ==
    IF K_summary \notin DOMAIN optimized_data.v THEN fields
    ELSE WithNested(WithNested(fields, K_structured_resume_data, K_summary, optimized_data.v[K_summary]),
                    K_structured_resume_data, K_optimized_summary, optimized_data.v[K_summary])

\* update_optimized_resume_relational(user_uid, optimized_data)
Optimised(exists, fields, its, optimized_data) ==
    IF ~exists THEN OptimizeEnds(TRUE, fields, its)
    ELSE OptimizeEnds(FALSE, OptimizedFields(fields, optimized_data),
                      IF K_projects \in DOMAIN optimized_data.v
                      THEN update_item_optimized_description(its, optimized_data.v[K_projects].v)
                      ELSE its)

\* personal_info, raw_text and resume_metadata from the top-level fields
TopLevel(fields) ==
    (IF Truthy(GetField(fields, K_name))
     THEN K_personal_info :> PyDict(K_name :> GetField(fields, K_name)) ELSE <<>>)
    @@ (IF Truthy(GetField(fields, K_raw_resume_text))
        THEN K_raw_text :> GetField(fields, K_raw_resume_text) ELSE <<>>)
    @@ (IF Truthy(GetField(fields, K_resume_metadata))
        THEN K_resume_metadata :> GetField(fields, K_resume_metadata) ELSE <<>>)

\* if structured_resume_data: resume_data.update(structured_resume_data);
\* if categorized_skills: resume_data['skills'] = categorized_skills
WithStructured(fields, resume_data) ==
    IF ~Truthy(GetField(fields, K_structured_resume_data)) THEN resume_data
    ELSE (IF Truthy(GetField(fields, K_categorized_skills))
          THEN K_skills :> GetField(fields, K_categorized_skills) ELSE <<>>)
         @@ GetField(fields, K_structured_resume_data).v @@ resume_data

\* user_data.get('resume', {})
Legacy(fields) == IF K_resume \in DOMAIN fields THEN fields[K_resume] ELSE EmptyDict

\* the optimized summary, when it is asked for and there is one
OptimizedSummary(fields, resume_data, get_optimized) ==
    IF ~get_optimized THEN None
    ELSE IF Truthy(GetField(resume_data, K_optimized_summary)) THEN resume_data[K_optimized_summary]
    ELSE IF Truthy(Get(Legacy(fields), K_optimized_summary)) THEN Get(Legacy(fields), K_optimized_summary)
    ELSE None

\* if not summary_to_use: the base summary, of the structured data or legacy
summary_to_use(fields, resume_data, optimized) ==
    IF Truthy(optimized) THEN optimized
    ELSE IF Truthy(GetField(resume_data, K_summary)) THEN resume_data[K_summary]
    ELSE IF Truthy(Get(Legacy(fields), K_summary)) THEN Get(Legacy(fields), K_summary)
    ELSE None

\* if summary_to_use: resume_data['summary'] = summary_to_use
WithSummary(resume_data, summary) ==
    IF Truthy(summary) THEN (K_summary :> summary) @@ resume_data ELSE resume_data

\* desc_to_use of a sub-collection document
desc_to_use(item_data, get_optimized) ==
    IF get_optimized /\ Truthy(Get(item_data, K_optimized_description))
    THEN Get(item_data, K_optimized_description)
    ELSE Get(item_data, K_description)

\* the item without its two description fields, and with 'description' the
\* lines of desc_to_use when there is one
FetchedItem(item_data, get_optimized) ==
    PyDict((IF Truthy(desc_to_use(item_data, get_optimized))
            THEN K_description :> DescriptionLines(desc_to_use(item_data, get_optimized)) ELSE <<>>)
           @@ Without(item_data.v, {K_optimized_description, K_description}))

\* if data_list: resume_data[standard_key] = data_list
WithProjects(resume_data, its, get_optimized) ==
    IF its = <<>> THEN resume_data
    ELSE (K_projects :> PyList([i \in 1..Len(its) |-> FetchedItem(its[i], get_optimized)])) @@ resume_data

\* {k: v for k, v in resume_data.items() if v}
TruthyEntries(resume_data) ==
    PyDict([k \in {x \in DOMAIN resume_data : Truthy(resume_data[x])} |-> resume_data[k]])

WithSummaryOf(fields, resume_data, get_optimized) ==
    WithSummary(resume_data,
                summary_to_use(fields, resume_data, OptimizedSummary(fields, resume_data, get_optimized)))

\* fetch_resume_relational(user_uid, get_optimized)
fetch(exists, fields, its, get_optimized) ==
    IF ~exists THEN None
    ELSE TruthyEntries(WithProjects(WithSummaryOf(fields, WithStructured(fields, TopLevel(fields)),
                                                  get_optimized),
                                    its, get_optimized))

\* resumes as the parser gives them to update_resume_relational: of the
\* sections they hold personal_info, summary and projects
Project(title, description) ==
    PyDict((K_title :> PyStr(title)) @@ (K_description :> description))

ParsedResumes ==
    {PyDict((K_personal_info :> PyDict(K_name :> PyStr(<<"n">>)))
            @@ (K_summary :> PyStr(<<"s", "1">>))
            @@ (K_projects :> PyList(<<Project(<<"p">>, PyList(<<PyStr(<<"a">>), PyStr(<<"b">>)>>))>>))),
     PyDict((K_personal_info :> PyDict(K_name :> PyStr(<<"n">>)))
            @@ (K_summary :> PyStr(<<"s", "2">>))
            @@ (K_projects :> PyList(<<Project(<<"p">>, PyStr(<<"c">>))>>))),
     PyDict(K_personal_info :> PyDict(K_name :> PyStr(<<"n">>))),
     PyDict((K_personal_info :> None) @@ (K_summary :> PyStr(<<"s", "1">>)))}

\* optimized resumes as given to update_optimized_resume_relational
OptimizedResumes ==
    {PyDict((K_summary :> PyStr(<<"o", "1">>))
            @@ (K_projects :> PyList(<<Project(<<"p">>, PyList(<<PyStr(<<"x">>)>>))>>))),
     PyDict(K_projects :> PyList(<<Project(<<"p">>, PyList(<<PyStr(<<"y">>)>>))>>))}

\* a user document written by an earlier version, with the map 'resume'
LegacyFields ==
    K_resume :> PyDict((K_summary :> PyStr(<<"l", "1">>))
                       @@ (K_optimized_summary :> PyStr(<<"l", "o">>)))

\* no resume method was called yet
NoResumeCall ==
    [op |-> "start", n |-> 0, returned |-> FALSE, raised |-> FALSE, get_optimized |-> FALSE,
     uploaded |-> None, optimized_since |-> FALSE]

ResumeCalling == resume_call.op # "none" /\ resume_call.n < MaxResumeCalls

\* the call ends: uploaded is the resume of the latest call that returned
\* True, None after one that returned False
UploadEnds(parsed_data, done) ==
    /\ user_doc' = [user_doc EXCEPT !.exists = done.exists]
    /\ user_fields' = done.fields
    /\ items' = done.items
    /\ resume_call' = [resume_call EXCEPT !.op = "update_resume_relational", !.n = @ + 1,
                           !.returned = done.returned, !.raised = FALSE,
                           !.uploaded = IF done.returned THEN parsed_data ELSE None,
                           !.optimized_since = FALSE]

update_resume_relational ==
    /\ ResumeCalling
    /\ \E parsed_data \in ParsedResumes, fault \in UpdateFaults :
        UploadEnds(parsed_data, Uploaded(user_doc.exists, user_fields, items, parsed_data, fault))
    /\ UNCHANGED <<roadmaps, added, initial_doc, db_ops, fetched>>
    /\ UNCHANGED <<procVars, normVars, chatVars, httpVars, optVars, concVars>>

OptimizeCallEnds(done) ==
    /\ user_fields' = done.fields
    /\ items' = done.items
    /\ resume_call' = [resume_call EXCEPT !.op = "update_optimized_resume_relational", !.n = @ + 1,
                           !.returned = FALSE, !.raised = done.raised,
                           !.optimized_since = ~done.raised \/ @]

update_optimized_resume_relational ==
    /\ ResumeCalling
    /\ \E optimized_data \in OptimizedResumes :
        OptimizeCallEnds(Optimised(user_doc.exists, user_fields, items, optimized_data))
    /\ UNCHANGED <<storeVars, fetched>>
    /\ UNCHANGED <<procVars, normVars, chatVars, httpVars, optVars, concVars>>

fetch_resume_relational ==
    /\ ResumeCalling
    /\ \E get_optimized \in BOOLEAN :
        /\ fetched' = fetch(user_doc.exists, user_fields, items, get_optimized)
        /\ resume_call' = [resume_call EXCEPT !.op = "fetch_resume_relational", !.n = @ + 1,
                               !.returned = FALSE, !.raised = FALSE,
                               !.get_optimized = get_optimized]
    /\ UNCHANGED <<storeVars, user_fields, items>>
    /\ UNCHANGED <<procVars, normVars, chatVars, httpVars, optVars, concVars>>

ResumeInit ==
    /\ roadmaps = <<>>
    /\ added = 0
    /\ user_doc \in {MissingDoc, UserDoc(StatsMap(ZeroStats))}
    /\ initial_doc = user_doc
    /\ user_fields \in (IF user_doc.exists THEN {<<>>, LegacyFields} ELSE {<<>>})
    /\ items = <<>>
    /\ resume_call = NoResumeCall
    /\ fetched = None

InitResume ==
    ResumeInit /\ db_ops = <<>> /\ ProcServing /\ NormIdle /\ ChatIdle /\ HttpIdle /\ OptIdle /\ ConcIdle

NextResume ==
    \/ update_resume_relational
    \/ update_optimized_resume_relational
    \/ fetch_resume_relational

SpecResume == InitResume /\ [][NextResume]_vars

\* increment_user_stat by server processes while a resume is uploaded
InitStats ==
    /\ ResumeInit
    /\ db_ops \in [Servers -> {IncrementOp("roadmaps_generated", 1), IncrementOp("resumes_optimized", 1)}]
    /\ ProcServing /\ NormIdle /\ ChatIdle /\ HttpIdle /\ OptIdle /\ ConcIdle

NextStats ==
    \/ update_resume_relational
    \/ \E s \in Servers : increment_get(s) \/ increment_write(s)

SpecStats == InitStats /\ [][NextStats]_vars

\* fetch_resume_relational was the latest call, and the latest
\* update_resume_relational before it returned True
FetchedAfterUpload(get_optimized) ==
    /\ resume_call.op = "fetch_resume_relational"
    /\ resume_call.get_optimized = get_optimized
    /\ resume_call.uploaded # None

\* C21: after update_resume_relational returned True for a new resume,
\* fetch_resume_relational(get_optimized=True) returns the summary of that
\* resume, not an optimized summary stored before the update.
C21_UploadResetsOptimizedSummary ==
    (FetchedAfterUpload(TRUE) /\ ~resume_call.optimized_since)
        => Get(fetched, K_summary) = Get(resume_call.uploaded, K_summary)

\* the same for a new resume that has a summary, when the document holds no
\* legacy 'resume.optimized_summary'
C21_WithoutLegacy ==
    (/\ FetchedAfterUpload(TRUE)
     /\ ~resume_call.optimized_since
     /\ Truthy(Get(resume_call.uploaded, K_summary))
     /\ ~Truthy(Get(Legacy(user_fields), K_optimized_summary)))
        => Get(fetched, K_summary) = Get(resume_call.uploaded, K_summary)

\* the legacy optimized summary was returned after an upload
C21_LegacySurvived ==
    /\ FetchedAfterUpload(TRUE)
    /\ ~resume_call.optimized_since
    /\ Get(fetched, K_summary) = PyStr(<<"l", "o">>)

\* the base descriptions of the uploaded items, each as one text
BaseDescriptions(parsed_data) ==
    [i \in 1..Len(SectionItems(GetField(parsed_data.v, K_projects))) |->
        Get(SectionItems(GetField(parsed_data.v, K_projects))[i], K_description)]

DescriptionText(item) ==
    IF Get(item, K_description).t = "list" THEN PyStr(JoinLines(Get(item, K_description).v))
    ELSE Get(item, K_description)

\* the descriptions of the returned items, each as one text
FetchedDescriptions(resume_data) ==
    IF Get(resume_data, K_projects).t # "list" THEN <<>>
    ELSE [i \in 1..Len(Get(resume_data, K_projects).v) |->
            DescriptionText(Get(resume_data, K_projects).v[i])]

\* C25: after any sequence of update_resume_relational and
\* update_optimized_resume_relational calls, fetch_resume_relational with
\* get_optimized=False returns the summary of the last uploaded resume and,
\* for every item, its base description.
C25_OnlyBaseContent ==
    FetchedAfterUpload(FALSE)
        => /\ Get(fetched, K_summary) = Get(resume_call.uploaded, K_summary)
           /\ FetchedDescriptions(fetched) = BaseDescriptions(resume_call.uploaded)

\* the part of it that is about the items
C25_DescriptionsAreBase ==
    FetchedAfterUpload(FALSE)
        => FetchedDescriptions(fetched) = BaseDescriptions(resume_call.uploaded)

\* the optimized summary was returned for get_optimized=False
C25_OptimizedSummaryReturned ==
    /\ FetchedAfterUpload(FALSE)
    /\ resume_call.optimized_since
    /\ Get(fetched, K_summary) = PyStr(<<"o", "1">>)
    /\ Get(resume_call.uploaded, K_summary) = PyStr(<<"s", "1">>)

\* with get_optimized=True the optimized description is returned
C25_OptimizedDescriptionReturned ==
    /\ FetchedAfterUpload(TRUE)
    /\ resume_call.optimized_since
    /\ FetchedDescriptions(fetched) = <<PyStr(<<"x">>)>>

\* a step in which update_resume_relational returned False
UploadFailedStep ==
    /\ resume_call'.op = "update_resume_relational"
    /\ resume_call'.n = resume_call.n + 1
    /\ ~resume_call'.returned

\* C26: whenever update_resume_relational returns False, the documents of
\* the user's resume sub-collections and the resume fields of the main
\* document are the same as before the call.
C26_AllOrNothing ==
    [][UploadFailedStep => (items' = items /\ user_fields' = user_fields)]_vars

\* update_resume_relational returned False and left the sub-collections empty
C26_ClearedThenFailed ==
    /\ resume_call.op = "update_resume_relational"
    /\ ~resume_call.returned
    /\ items = <<>>
    /\ K_structured_resume_data \in DOMAIN user_fields
    /\ Get(user_fields[K_structured_resume_data], K_projects).t = "list"

\* the write of increment_user_stat by the server process s
StatWriteStep(s) ==
    /\ db_ops[s].op = "increment_user_stat"
    /\ db_ops[s].pc = "read"
    /\ db_ops'[s].pc = "done"

OtherFieldsKept(s) ==
    /\ user_fields' = user_fields
    /\ \A n \in StatNames \ {db_ops[s].stat_name} : StatOf(user_doc', n) = StatOf(user_doc, n)

\* C24: the write of increment_user_stat, whatever other writers of the
\* user document did since it read the document, leaves every field but
\* the named statistic as it was: the profile and resume fields, and the
\* other counters of 'stats'.
C24_OnlyNamedStat ==
    [][\A s \in DOMAIN db_ops : StatWriteStep(s) => OtherFieldsKept(s)]_vars

\* the same for a write made when the document is still as it was read
C24_UndisturbedWrite ==
    [][\A s \in DOMAIN db_ops :
        (StatWriteStep(s) /\ db_ops[s].seen_user = user_doc) => OtherFieldsKept(s)]_vars

\* a statistic was written and the uploaded resume fields are gone
C24_ResumeFieldsLost ==
    /\ resume_call.op = "update_resume_relational"
    /\ resume_call.returned
    /\ user_fields = <<>>
    /\ \E s \in DOMAIN db_ops : db_ops[s].pc = "done"

====
